---------------------------- MODULE Spec2Model ----------------------------
(***************************************************************************)
(* Lyric-to-timeline alignment engine of the lead-sheet editor:            *)
(*   tokenizeAllLyrics  ->  chunkTokensForwardOnly  ->                      *)
(*   reflowOverflowAcrossSystems (enforceAnchoredTokenOwnership, then the   *)
(*   overflow loop)  ->  layoutOnlyBetweenAnchors.                          *)
(*                                                                         *)
(* Lyrics are sequences of one-character strings; charIndex is 0-based as  *)
(* in the source, so the character at charIndex c is lyrics[c + 1].        *)
(* Pixel positions are exact rationals, held as integers in units of       *)
(* 1/Unit px (the source computes them in IEEE doubles).                   *)
(***************************************************************************)
EXTENDS Integers, Sequences, FiniteSets, TLC

(***************************************************************************)
(* Bounds of the model.                                                    *)
(***************************************************************************)
MaxLyricsLen == 5
MaxPipelineLyricsLen == 4
MaxAnchors == 2
NumSystems == 3
MaxEditorLen == 3
MaxAnchorIds == 3
EditorCells == 2
MaxChords == 2
MaxChordCell == 5
MaxBeatsPerBar == 2
MaxSubdivision == 2
MaxBarsPerSystem == 2
MaxLineWords == 12

(***************************************************************************)
(* LYRIC_METRICS (metrics.ts) and the runaway guard of the width fill.     *)
(***************************************************************************)
charPx == 9
padPx == 20
gapPx == 10
hyphenPx == 14
MaxTokensPerSystem == 260
MaxReflowRounds == 10

(***************************************************************************)
(* Small helpers.                                                          *)
(***************************************************************************)
Min(a, b) == IF a <= b THEN a ELSE b
Max(a, b) == IF a >= b THEN a ELSE b
clamp(n, lo, hi) == Max(lo, Min(hi, n))

RECURSIVE Gcd(_, _)
Gcd(a, b) == IF b = 0 THEN a ELSE Gcd(b, a % b)
Lcm(a, b) == (a * b) \div Gcd(a, b)
RECURSIVE LcmUpTo(_)
LcmUpTo(n) == IF n <= 1 THEN 1 ELSE Lcm(n, LcmUpTo(n - 1))

\* JavaScript Array.prototype.slice(from, to) on a 0-based array
Slice(seq, from, to) ==
  IF to <= from THEN << >> ELSE SubSeq(seq, from + 1, Min(to, Len(seq)))

RECURSIVE SeqsUpTo(_, _)
SeqsUpTo(S, n) ==
  IF n = 0 THEN { << >> }
  ELSE LET shorter == SeqsUpTo(S, n - 1)
       IN  shorter \cup { Append(q, x) : q \in { r \in shorter : Len(r) = n - 1 }, x \in S }

(***************************************************************************)
(* tokens.ts                                                               *)
(***************************************************************************)
Whitespace == { " ", "\n" }
Alphabet == { "a", "-", " ", "\n" }

\* a whitespace test that knows the space only
IsWsSpaceOnly(c) == c = " "
IsWs(c) == c \in Whitespace

WordToken(text, charIndex) == [kind |-> "word", text |-> text, charIndex |-> charIndex]
HyphenToken(charIndex) == [kind |-> "hyphen", text |-> << "-" >>, charIndex |-> charIndex]

estWidthOfToken(t) ==
  IF t.kind = "hyphen" THEN hyphenPx ELSE Len(t.text) * charPx + padPx

\* while (i < lyrics.length && /\s/.test(lyrics[i])) i++
RECURSIVE SkipWhitespace(_, _)
SkipWhitespace(lyr, i) ==
  IF i < Len(lyr) /\ IsWs(lyr[i + 1]) THEN SkipWhitespace(lyr, i + 1) ELSE i

\* while (i < lyrics.length && !/\s/.test(lyrics[i])) i++
RECURSIVE SkipWord(_, _)
SkipWord(lyr, i) ==
  IF i < Len(lyr) /\ ~IsWs(lyr[i + 1]) THEN SkipWord(lyr, i + 1) ELSE i

\* word.indexOf("-", from): 0-based, -1 when absent
RECURSIVE IndexOfDash(_, _)
IndexOfDash(word, from) ==
  IF from >= Len(word) THEN -1
  ELSE IF word[from + 1] = "-" THEN from
  ELSE IndexOfDash(word, from + 1)

\* variant of the split loop that records word offsets relative to the word
RECURSIVE SplitHyphenatedRelative(_, _, _, _)
SplitHyphenatedRelative(word, absStart, local, toks) ==
  IF local >= Len(word) THEN toks
  ELSE LET dash == IndexOfDash(word, local) IN
       IF dash = -1
       THEN LET part == Slice(word, local, Len(word)) IN
            IF Len(part) > 0 THEN Append(toks, WordToken(part, local)) ELSE toks
       ELSE LET left == Slice(word, local, dash)
                withLeft == IF Len(left) > 0
                            THEN Append(toks, WordToken(left, local))
                            ELSE toks
                withDash == Append(withLeft, HyphenToken(absStart + dash))
            IN  SplitHyphenatedRelative(word, absStart, dash + 1, withDash)

\* variant of the split loop that keeps empty segments
RECURSIVE SplitHyphenatedKeepEmpty(_, _, _, _)
SplitHyphenatedKeepEmpty(word, absStart, local, toks) ==
  IF local >= Len(word) THEN toks
  ELSE LET dash == IndexOfDash(word, local) IN
       IF dash = -1
       THEN Append(toks, WordToken(Slice(word, local, Len(word)), absStart + local))
       ELSE LET left == Slice(word, local, dash)
                withLeft == Append(toks, WordToken(left, absStart + local))
                withDash == Append(withLeft, HyphenToken(absStart + dash))
            IN  SplitHyphenatedKeepEmpty(word, absStart, dash + 1, withDash)

\* the inner loop over one whitespace-delimited word that contains a dash
RECURSIVE SplitHyphenated(_, _, _, _)
SplitHyphenated(word, absStart, local, toks) ==
  IF local >= Len(word) THEN toks
  ELSE LET dash == IndexOfDash(word, local) IN
       IF dash = -1
       THEN LET part == Slice(word, local, Len(word)) IN
            IF Len(part) > 0 THEN Append(toks, WordToken(part, absStart + local)) ELSE toks
       ELSE LET left == Slice(word, local, dash)
                withLeft == IF Len(left) > 0
                            THEN Append(toks, WordToken(left, absStart + local))
                            ELSE toks
                withDash == Append(withLeft, HyphenToken(absStart + dash))
            IN  SplitHyphenated(word, absStart, dash + 1, withDash)

RECURSIVE TokenizeFrom(_, _, _)
TokenizeFrom(lyr, i0, toks) ==
  IF i0 >= Len(lyr) THEN toks
  ELSE LET wordStart == SkipWhitespace(lyr, i0) IN
       IF wordStart >= Len(lyr) THEN toks
       ELSE LET i == SkipWord(lyr, wordStart)
                word == Slice(lyr, wordStart, i)
            IN  IF IndexOfDash(word, 0) = -1
                THEN TokenizeFrom(lyr, i, Append(toks, WordToken(word, wordStart)))
                ELSE TokenizeFrom(lyr, i, SplitHyphenated(word, wordStart, 0, toks))

tokenizeAllLyrics(lyr) == TokenizeFrom(lyr, 0, << >>)

(***************************************************************************)
(* Geometry handed to the engine by LeadSheetGrid.  The system windows are *)
(* contiguous, SystemCells cells each.  systemBeats is                     *)
(* (endCell - startCell) / subdivision and a beat offset is                *)
(* (cell - startCell) / subdivision, so for subdivision > 0 the ratio      *)
(* beat / systemBeats equals (cell - startCell) / (endCell - startCell):   *)
(* positions are computed from cell counts.                                *)
(***************************************************************************)
SystemCells == 1
Widths == { 30, 70 }

\* the window of the system laid out on its own, and the widths tried for it
LayoutStartCell == 1
LayoutCells == 2
LayoutWidths == { 70, 100 }

systemsTiming ==
  [ s \in 1..NumSystems |->
      [ startCell |-> (s - 1) * SystemCells, endCell |-> s * SystemCells ] ]

\* sub-pixel resolution: every quotient the solvers form is a whole number of
\* 1/Unit px
Unit == 2 * 5 * SystemCells * LayoutCells * LcmUpTo(MaxLyricsLen + 1)
Px(n) == n * Unit

(***************************************************************************)
(* chunking.ts.  A token is identified by its 0-based index in the token   *)
(* sequence (object identity in the source); a chunk is a sequence of      *)
(* token indices.                                                          *)
(***************************************************************************)
\* tokenIndexByCharIndex.get(charIndex): word tokens only, -1 for undefined
RECURSIVE LastWordIndex(_, _, _)
LastWordIndex(tokens, charIndex, k) ==
  IF k = 0 THEN -1
  ELSE IF tokens[k].kind = "word" /\ tokens[k].charIndex = charIndex THEN k - 1
  ELSE LastWordIndex(tokens, charIndex, k - 1)

tokenIndexByCharIndex(tokens, charIndex) == LastWordIndex(tokens, charIndex, Len(tokens))

\* anchors.filter((a) => a.cell >= startCell && a.cell < endCell), per system
buildAnchorsBySystem(anchorList, timing) ==
  [ s \in 1..Len(timing) |->
      SelectSeq(anchorList,
                LAMBDA a : a.cell >= timing[s].startCell /\ a.cell < timing[s].endCell) ]

\* max anchored token index among the anchors timed inside window w, else -1
RECURSIVE RequiredMax(_, _, _, _)
RequiredMax(tokens, anchorList, w, k) ==
  IF k = 0 THEN -1
  ELSE LET a == anchorList[k]
           rest == RequiredMax(tokens, anchorList, w, k - 1)
           tokIdx == tokenIndexByCharIndex(tokens, a.charIndex)
       IN  IF a.cell >= w.startCell /\ a.cell < w.endCell /\ tokIdx # -1
           THEN Max(rest, tokIdx)
           ELSE rest

requiredMaxBySystem(tokens, anchorList, timing) ==
  [ s \in 1..Len(timing) |-> RequiredMax(tokens, anchorList, timing[s], Len(anchorList)) ]

\* a width fill that leaves the gap between tokens out of the used width
RECURSIVE WidthFillNoGap(_, _, _, _, _)
WidthFillNoGap(tokens, ptr, end, used, widthPx) ==
  IF end >= Len(tokens) THEN end
  ELSE LET w == estWidthOfToken(tokens[end + 1])
           nextUsed == used + w
       IN  IF nextUsed > widthPx /\ end > ptr THEN end
           ELSE IF (end + 1) - ptr >= MaxTokensPerSystem THEN end + 1
           ELSE WidthFillNoGap(tokens, ptr, end + 1, nextUsed, widthPx)

\* the width-fill while loop: returns the exclusive end index
RECURSIVE WidthFill(_, _, _, _, _)
WidthFill(tokens, ptr, end, used, widthPx) ==
  IF end >= Len(tokens) THEN end
  ELSE LET w == estWidthOfToken(tokens[end + 1])
           nextUsed == used + w + (IF end = ptr THEN 0 ELSE gapPx)
       IN  IF nextUsed > widthPx /\ end > ptr THEN end
           ELSE IF (end + 1) - ptr >= MaxTokensPerSystem THEN end + 1
           ELSE WidthFill(tokens, ptr, end + 1, nextUsed, widthPx)

\* an iteration that gives the system its width fill and never extends it
RangeForSystemNoExtension(tokens, ptr, reqMax, widthPx) ==
  IF ptr >= Len(tokens) THEN [start |-> ptr, end |-> ptr]
  ELSE [start |-> ptr, end |-> WidthFill(tokens, ptr, ptr, 0, widthPx)]

\* one iteration of the per-system loop: the range given to a system
RangeForSystem(tokens, ptr, reqMax, widthPx) ==
  IF ptr >= Len(tokens) THEN [start |-> ptr, end |-> ptr]
  ELSE LET filled == WidthFill(tokens, ptr, ptr, 0, widthPx)
           neededEnd == Min(reqMax + 1, Len(tokens))
           extended == IF reqMax >= ptr /\ neededEnd > filled THEN neededEnd ELSE filled
           end == IF extended < ptr THEN ptr ELSE extended
       IN  [start |-> ptr, end |-> end]

\* tokens.slice(r.start, r.end) as token indices
RangeIndices(r) == [ k \in 1..(r.end - r.start) |-> r.start + k - 1 ]

(***************************************************************************)
(* layout.ts: three versions of layoutOnlyBetweenAnchors are in the        *)
(* repository.  Each takes the tokens of one system, the anchors timed in  *)
(* it, the window (start cell, cell count) and the width, and returns the  *)
(* x of every token in units of 1/Unit px.  Token positions k are 1-based  *)
(* here (index k - 1 in the source).                                       *)
(***************************************************************************)
WidthOf(toks, k) == Px(estWidthOfToken(toks[k]))
GapU == Px(gapPx)

\* tokens.findIndex((t) => t.kind === "word" && t.charIndex === c), 1-based, 0 if none
RECURSIVE FirstWordPos(_, _, _)
FirstWordPos(toks, charIndex, k) ==
  IF k > Len(toks) THEN 0
  ELSE IF toks[k].kind = "word" /\ toks[k].charIndex = charIndex THEN k
  ELSE FirstWordPos(toks, charIndex, k + 1)

\* default linear flow: cursor += width + gap
RECURSIVE LinearFlow(_, _, _, _)
LinearFlow(toks, k, cursor, acc) ==
  IF k > Len(toks) THEN acc
  ELSE LinearFlow(toks, k + 1, cursor + WidthOf(toks, k) + GapU, Append(acc, cursor))

\* (clamp(beat, 0, systemBeats) / systemBeats) * systemWidthPx
AnchorXClamped(cell, startCell, cells, widthPx) ==
  (clamp(cell - startCell, 0, cells) * Px(widthPx)) \div cells

\* cellToX of the even-spread version: no clamp, 0 when systemBeats <= 0
AnchorXUnclamped(cell, startCell, cells, widthPx) ==
  IF cells <= 0 THEN 0 ELSE ((cell - startCell) * Px(widthPx)) \div cells

\* the map from an anchor's cell to its x that each version applies
anchorCellToX(variant, cell, startCell, cells, widthPx) ==
  IF variant = "evenSpread"
  THEN AnchorXUnclamped(cell, startCell, cells, widthPx)
  ELSE AnchorXClamped(cell, startCell, cells, widthPx)

PointLeq(p, q) == p.i < q.i \/ (p.i = q.i /\ p.x <= q.x)

\* anchorPoints.sort((a, b) => (a.i - b.i) || (a.x - b.x))
RECURSIVE InsertPoint(_, _)
InsertPoint(sorted, p) ==
  IF sorted = << >> THEN << p >>
  ELSE IF PointLeq(sorted[Len(sorted)], p) THEN Append(sorted, p)
  ELSE Append(InsertPoint(SubSeq(sorted, 1, Len(sorted) - 1), p), sorted[Len(sorted)])

RECURSIVE SortPoints(_, _, _)
SortPoints(pts, k, acc) ==
  IF k > Len(pts) THEN acc ELSE SortPoints(pts, k + 1, InsertPoint(acc, pts[k]))

\* the anchor points of a system, in anchor order, for the anchors that match a word
RECURSIVE RawAnchorPoints(_, _, _, _, _, _, _)
RawAnchorPoints(toks, anchorsHere, startCell, cells, widthPx, k, acc) ==
  IF k > Len(anchorsHere) THEN acc
  ELSE LET a == anchorsHere[k]
           localIndex == FirstWordPos(toks, a.charIndex, 1)
       IN  RawAnchorPoints(toks, anchorsHere, startCell, cells, widthPx, k + 1,
             IF localIndex = 0 THEN acc
             ELSE Append(acc, [i |-> localIndex,
                               x |-> AnchorXClamped(a.cell, startCell, cells, widthPx)]))

AnchorPoints(toks, anchorsHere, startCell, cells, widthPx) ==
  SortPoints(RawAnchorPoints(toks, anchorsHere, startCell, cells, widthPx, 1, << >>), 1, << >>)

\* snap the anchored tokens, then even-spread strictly between consecutive anchors
SnapAndSpread(lin, pts) ==
  [ k \in 1..Len(lin) |->
      LET at == { m \in 1..Len(pts) : pts[m].i = k }
          between == { m \in 1..(Len(pts) - 1) : pts[m].i < k /\ k < pts[m + 1].i }
      IN  IF at # {}
          THEN pts[CHOOSE m \in at : \A m2 \in at : m2 <= m].x
          ELSE IF between # {}
          THEN LET m == CHOOSE m \in between : TRUE
                   a == pts[m]
                   b == pts[m + 1]
               IN  a.x + ((k - a.i) * (b.x - a.x)) \div (b.i - a.i)
          ELSE lin[k] ]

\* non-overlap forward pass of part_003: every token, anchored or not
RECURSIVE ForwardPass(_, _, _)
ForwardPass(x, toks, k) ==
  IF k > Len(toks) THEN x
  ELSE LET minX == x[k - 1] + WidthOf(toks, k - 1) + GapU
       IN  ForwardPass(IF x[k] < minX THEN [x EXCEPT ![k] = minX] ELSE x, toks, k + 1)

IsCenteredHyphen(toks, k) ==
  /\ toks[k].kind = "hyphen"
  /\ k > 1
  /\ k < Len(toks)
  /\ toks[k - 1].kind = "word"
  /\ toks[k + 1].kind = "word"

\* a centering pass that leaves every hyphen where it is
CenterHyphensOff(x, toks) == x
\* hyphen centering pass: its neighbours are words, which the pass leaves alone
CenterHyphens(x, toks) ==
  [ k \in 1..Len(toks) |->
      IF IsCenteredHyphen(toks, k)
      THEN ((x[k - 1] + WidthOf(toks, k - 1) + x[k + 1]) \div 2) - (WidthOf(toks, k) \div 2)
      ELSE x[k] ]

RECURSIVE SeqMin(_, _)
SeqMin(x, k) == IF k = 1 THEN x[1] ELSE Min(x[k], SeqMin(x, k - 1))
RECURSIVE MaxRightEdge(_, _, _)
MaxRightEdge(x, toks, k) ==
  IF k = 1 THEN x[1] + WidthOf(toks, 1)
  ELSE Max(x[k] + WidthOf(toks, k), MaxRightEdge(x, toks, k - 1))

\* part_003, unanchored branch: shift to fit, then hyphen centering
ShiftToFit(x, toks, widthPx) ==
  LET minLeft == SeqMin(x, Len(x))
      maxRight == MaxRightEdge(x, toks, Len(x))
      contentWidth == maxRight - minLeft
      maxShift == Px(widthPx) - maxRight
      shift == IF contentWidth > Px(widthPx) THEN 0 - minLeft
               ELSE IF (0 - minLeft) > maxShift THEN maxShift ELSE 0 - minLeft
  IN  [ k \in 1..Len(x) |-> x[k] + shift ]

\* src/unnamed/part_003
layoutForwardPass(toks, anchorsHere, startCell, cells, widthPx) ==
  LET lin == LinearFlow(toks, 1, 0, << >>)
      pts == AnchorPoints(toks, anchorsHere, startCell, cells, widthPx)
  IN  IF Len(pts) >= 1
      THEN CenterHyphens(ForwardPass(SnapAndSpread(lin, pts), toks, 2), toks)
      ELSE IF Len(toks) = 0 THEN << >>
      ELSE CenterHyphens(ShiftToFit(lin, toks, widthPx), toks)

\* backward ripple of part_004, entered at position j = i - 1 (1-based)
RECURSIVE Ripple(_, _, _, _)
Ripple(x, toks, anchored, j) ==
  IF j < 1 THEN x
  ELSE LET maxRight == x[j] + WidthOf(toks, j)
           allowedRight == x[j + 1] - GapU
           newX == allowedRight - WidthOf(toks, j)
       IN  IF maxRight + GapU <= x[j + 1] \/ x[j] = newX THEN x
           ELSE LET pulled == [x EXCEPT ![j] = Min(x[j], newX)]
                IN  IF j - 1 >= 1 /\ (j - 1) \in anchored THEN pulled
                    ELSE Ripple(pulled, toks, anchored, j - 1)

\* hard-constraint collision handling of part_004
RECURSIVE CollisionPass(_, _, _, _)
CollisionPass(x, toks, anchored, k) ==
  IF k > Len(toks) THEN x
  ELSE LET minX == x[k - 1] + WidthOf(toks, k - 1) + GapU
       IN  IF k \in anchored
           THEN CollisionPass(IF minX > x[k] THEN Ripple(x, toks, anchored, k - 1) ELSE x,
                              toks, anchored, k + 1)
           ELSE CollisionPass(IF x[k] < minX THEN [x EXCEPT ![k] = minX] ELSE x,
                              toks, anchored, k + 1)

\* part_004: clamp into view by shifting the whole line
ShiftIntoView(x, toks, widthPx) ==
  IF Len(x) = 0 THEN x
  ELSE LET minLeft == SeqMin(x, Len(x))
           maxRight == MaxRightEdge(x, toks, Len(x))
           shift0 == IF minLeft < 0 THEN 0 - minLeft ELSE 0
           shift == IF maxRight + shift0 > Px(widthPx)
                    THEN Max(0, shift0 - (maxRight + shift0 - Px(widthPx)))
                    ELSE shift0
       IN  [ k \in 1..Len(x) |-> x[k] + shift ]

\* src/unnamed/part_004
layoutBackwardRipple(toks, anchorsHere, startCell, cells, widthPx) ==
  LET lin == LinearFlow(toks, 1, 0, << >>)
      pts == AnchorPoints(toks, anchorsHere, startCell, cells, widthPx)
      anchored == { pts[m].i : m \in 1..Len(pts) }
      placed == IF Len(pts) >= 1
                THEN CollisionPass(SnapAndSpread(lin, pts), toks, anchored, 2)
                ELSE lin
  IN  ShiftIntoView(placed, toks, widthPx)

\* anchorCellByChar.get(charIndex): the last anchor with that charIndex, 0 if none
RECURSIVE LastAnchorPos(_, _, _)
LastAnchorPos(anchorsHere, charIndex, k) ==
  IF k = 0 THEN 0
  ELSE IF anchorsHere[k].charIndex = charIndex THEN k
  ELSE LastAnchorPos(anchorsHere, charIndex, k - 1)

\* distributeEvenly(startX, endX, indices) for the run of positions first..last:
\* the x it gives position k
DistributeEvenly(startX, endX, first, last, k) ==
  LET n == last - first + 1
  IN  IF n = 1 THEN (startX + endX) \div 2
      ELSE startX + ((k - first + 1) * (endX - startX)) \div (n + 1)

\* src/src/lib/lyrics/layout.ts
layoutEvenSpread(toks, anchorsHere, startCell, cells, widthPx) ==
  LET n == Len(toks)
      anchoredIdx == { k \in 1..n : /\ toks[k].kind = "word"
                                   /\ LastAnchorPos(anchorsHere, toks[k].charIndex,
                                                    Len(anchorsHere)) # 0 }
      anchorX(k) == AnchorXUnclamped(
                      anchorsHere[LastAnchorPos(anchorsHere, toks[k].charIndex,
                                                Len(anchorsHere))].cell,
                      startCell, cells, widthPx)
  IN  IF n = 0 THEN << >>
      ELSE IF anchoredIdx = {}
      THEN IF n = 1 THEN << Px(widthPx) \div 5 >>
           ELSE [ k \in 1..n |-> ((k - 1) * Px(widthPx)) \div (n - 1) ]
      ELSE [ k \in 1..n |->
             IF k \in anchoredIdx THEN anchorX(k)
             ELSE LET before == { a \in anchoredIdx : a < k }
                      after == { a \in anchoredIdx : a > k }
                      leftA == IF before = {} THEN 0
                               ELSE CHOOSE a \in before : \A b \in before : b <= a
                      rightA == IF after = {} THEN n + 1
                                ELSE CHOOSE a \in after : \A b \in after : a <= b
                      startX == IF leftA = 0 THEN 0 ELSE anchorX(leftA)
                      endX == IF rightA = n + 1 THEN Px(widthPx) ELSE anchorX(rightA)
                  IN  DistributeEvenly(startX, endX, leftA + 1, rightA - 1, k) ]

LayoutVariants == { "evenSpread", "forwardPass", "backwardRipple" }

\* the layoutOnlyBetweenAnchors that "./layout" resolves to
layoutOnlyBetweenAnchors(variant, toks, anchorsHere, startCell, cells, widthPx) ==
  CASE variant = "evenSpread" -> layoutEvenSpread(toks, anchorsHere, startCell, cells, widthPx)
    [] variant = "forwardPass" -> layoutForwardPass(toks, anchorsHere, startCell, cells, widthPx)
    [] variant = "backwardRipple" ->
         layoutBackwardRipple(toks, anchorsHere, startCell, cells, widthPx)

(***************************************************************************)
(* layoutCells.ts: layoutOnlyBetweenAnchorsInCells places the tokens of    *)
(* one system in cell space.  Cell positions are exact rationals, held as  *)
(* integers in units of 1/CellUnit cell.  SAFETY = 1.12 is                 *)
(* SafetyNum / SafetyDen.                                                  *)
(***************************************************************************)
SafetyNum == 28
SafetyDen == 25

RECURSIVE LcmOfSet(_)
LcmOfSet(S) ==
  IF S = {} THEN 1
  ELSE LET n == CHOOSE n \in S : TRUE IN Lcm(n, LcmOfSet(S \ { n }))

\* pxPerCell: barWidthPx / barCells, for a system of one bar
pxPerCellOf(barWidthPx, barCells) == IF barCells > 0 THEN barWidthPx \div barCells ELSE 1

\* the pixels per cell the solver is called with
PxPerCells == { pxPerCellOf(w, LayoutCells) : w \in LayoutWidths }

\* sub-cell resolution: every quotient packRun forms is a whole number of
\* 1/CellUnit cell
CellUnit == SafetyDen * LcmOfSet({ p \in PxPerCells : p > 0 }) * LcmUpTo(MaxLyricsLen)
Cells(n) == n * CellUnit

\* widthPx(t) of layoutCells.ts
tokenWidthPx(t) ==
  IF t.kind = "hyphen" THEN hyphenPx ELSE Len(t.text) * charPx + padPx

\* (widthPx(t) * SAFETY) / pxPerCell
widthCells(t, pxPerCell) ==
  IF pxPerCell <= 0 THEN 0
  ELSE tokenWidthPx(t) * SafetyNum * (CellUnit \div (SafetyDen * pxPerCell))

baseGapCells(pxPerCell) ==
  IF pxPerCell > 0 THEN gapPx * SafetyNum * (CellUnit \div (SafetyDen * pxPerCell)) ELSE 0

\* summed widthCells of tokens from..to
RECURSIVE SumWidthCells(_, _, _, _)
SumWidthCells(toks, from, to, pxPerCell) ==
  IF from > to THEN 0
  ELSE widthCells(toks[to], pxPerCell) + SumWidthCells(toks, from, to - 1, pxPerCell)

\* the anchors that match a word of the chunk, in local cell coordinates, in
\* anchor order (tokenIndexByCharIndex is 0-based, a position is 1-based)
RECURSIVE RawCellAnchorPoints(_, _, _, _, _, _)
RawCellAnchorPoints(toks, anchorsHere, startCell, cells, k, acc) ==
  IF k > Len(anchorsHere) THEN acc
  ELSE LET a == anchorsHere[k]
           i == tokenIndexByCharIndex(toks, a.charIndex)
       IN  RawCellAnchorPoints(toks, anchorsHere, startCell, cells, k + 1,
             IF i = -1 THEN acc
             ELSE Append(acc, [i |-> i + 1,
                               x |-> Cells(clamp(a.cell - startCell, 0, cells))]))

\* anchorPoints.sort((a, b) => (a.i - b.i) || (a.c - b.c)); field x holds c
CellAnchorPoints(toks, anchorsHere, startCell, cells) ==
  SortPoints(RawCellAnchorPoints(toks, anchorsHere, startCell, cells, 1, << >>), 1, << >>)

\* packRun, "Pack left with computed gap": cursor += widthCells + gap
PackLeft(toks, startIdx, endIdx, leftBound, gap, pxPerCell) ==
  [ i \in startIdx..endIdx |->
      leftBound + SumWidthCells(toks, startIdx, i - 1, pxPerCell) + (i - startIdx) * gap ]

\* packRun, "Final non-overlap enforcement (forward)" from position i on
RECURSIVE EnforceForward(_, _, _, _, _)
EnforceForward(pos, toks, i, endIdx, pxPerCell) ==
  IF i > endIdx THEN pos
  ELSE LET minC == pos[i - 1] + widthCells(toks[i - 1], pxPerCell)
       IN  EnforceForward(IF pos[i] < minC THEN [pos EXCEPT ![i] = minC] ELSE pos,
                          toks, i + 1, endIdx, pxPerCell)

\* packRun(startIdx, endIdx, leftBound, rightBound): the posLocal it writes,
\* for startIdx <= endIdx
packRun(toks, startIdx, endIdx, leftBound, rightBound, pxPerCell) ==
  LET sumW == SumWidthCells(toks, startIdx, endIdx, pxPerCell)
      gaps == Max(0, endIdx - startIdx)
      available == rightBound - leftBound
      gap == IF gaps > 0
             THEN clamp(baseGapCells(pxPerCell), 0, (available - sumW) \div gaps)
             ELSE baseGapCells(pxPerCell)
      packed == PackLeft(toks, startIdx, endIdx, leftBound, gap, pxPerCell)
      rightMost == packed[endIdx] + widthCells(toks[endIdx], pxPerCell)
      shifted == IF rightMost > rightBound
                 THEN [ i \in startIdx..endIdx |->
                          Max(leftBound, packed[i] - (rightMost - rightBound)) ]
                 ELSE packed
  IN  IF available <= 0 THEN [ i \in startIdx..endIdx |-> leftBound ]
      ELSE EnforceForward(shifted, toks, startIdx + 1, endIdx, pxPerCell)

\* the run an unanchored token at position k is packed in: segment A (before
\* the first anchor), a segment between two anchors, segment Z (after the
\* last), or the whole chunk when there is no anchor
RunOf(toks, pts, cells, pxPerCell, k) ==
  LET before == { m \in 1..Len(pts) : pts[m].i < k }
      after == { m \in 1..Len(pts) : pts[m].i > k }
      a == pts[CHOOSE m \in before : \A m2 \in before : m2 <= m]
      b == pts[CHOOSE m \in after : \A m2 \in after : m <= m2]
  IN  [ startIdx |-> IF before = {} THEN 1 ELSE a.i + 1,
        endIdx |-> IF after = {} THEN Len(toks) ELSE b.i - 1,
        leftBound |-> IF before = {} THEN 0
                      ELSE a.x + widthCells(toks[a.i], pxPerCell) + baseGapCells(pxPerCell),
        rightBound |-> IF after = {} THEN Cells(cells) ELSE b.x ]

\* src/unnamed/part_005: the absolute cell of every token, in 1/CellUnit cell
layoutOnlyBetweenAnchorsInCells(toks, anchorsHere, startCell, cells, pxPerCell) ==
  LET pts == CellAnchorPoints(toks, anchorsHere, startCell, cells)
      posLocal ==
        [ k \in 1..Len(toks) |->
            LET at == { m \in 1..Len(pts) : pts[m].i = k }
                r == RunOf(toks, pts, cells, pxPerCell, k)
                packed == packRun(toks, r.startIdx, r.endIdx, r.leftBound, r.rightBound,
                                  pxPerCell)[k]
            IN  IF at # {} THEN pts[CHOOSE m \in at : \A m2 \in at : m2 <= m].x
                ELSE IF Len(pts) = 0 THEN packed
                ELSE clamp(packed, 0, Cells(cells)) ]
  IN  [ k \in 1..Len(toks) |-> Cells(startCell) + posLocal[k] ]

(***************************************************************************)
(* State.                                                                  *)
(***************************************************************************)
VARIABLES
  pc,                 \* position in the render pipeline
  lyrics,             \* the lyrics string
  anchors,            \* the anchor list of the section
  systemWidthPx,      \* pixel width of a system
  layoutVariant,      \* which layout.ts is linked
  lyricTokens,        \* result of tokenizeAllLyrics(lyrics)
  ranges,             \* chunkTokensForwardOnly: ranges pushed so far
  ptr,                \* chunkTokensForwardOnly: the forward cursor
  initialTokenChunks, \* result of chunkTokensForwardOnly
  chunks,             \* reflowOverflowAcrossSystems: the editable copies
  enforceAt,          \* ownership pass: anchors of the work list handled so far
  reflowSys,          \* overflow loop: system index s (0-based)
  guard,              \* overflow loop: rounds run for system s
  roundsRun,          \* history: layout rounds run per system
  visits,             \* history: times the overflow loop reached each system
  lastMove,           \* history: the latest relocation of tokens
  systemLayouts,      \* result of layoutOnlyBetweenAnchors per system
  selectedCharIndex,  \* page: the lyric position picked for the next anchor
  nextId,             \* page: ids handed out by crypto.randomUUID() so far
  windowCells,        \* cell count of the window given to the solver called on its own
  chords,             \* LeadSheetGrid props: the chord events (their cells)
  beatsPerBar,        \* LeadSheetGrid props: timeSignature.beatsPerBar
  subdivision,        \* LeadSheetGrid props: cells per beat
  barsPerSystem,      \* LeadSheetGrid props
  gridVersion,        \* which LeadSheetGrid builds the bars
  bars,               \* LeadSheetGrid memo: the bar models
  systems,            \* LeadSheetGrid memo: the bars of each system
  gridTiming,         \* LeadSheetGrid memo: systemsTiming as built from the bars
  chordDraft,         \* page: the text of the chord field, as its SYMBOL:beats parts
  chordParser         \* which parseChordInput is linked

vars == << pc, lyrics, anchors, systemWidthPx, layoutVariant, lyricTokens, ranges, ptr,
           initialTokenChunks, chunks, enforceAt, reflowSys, guard, roundsRun, visits,
           lastMove, systemLayouts, selectedCharIndex, nextId, windowCells,
           chords, beatsPerBar, subdivision, barsPerSystem, gridVersion, bars, systems,
           gridTiming, chordDraft, chordParser >>

gridVars == << chords, beatsPerBar, subdivision, barsPerSystem, gridVersion, bars, systems,
              gridTiming >>
chordFieldVars == << chordDraft, chordParser >>
inputVars == << lyrics, anchors, systemWidthPx, layoutVariant, selectedCharIndex, nextId,
               windowCells, gridVars, chordFieldVars >>
chunkVars == << ranges, ptr, initialTokenChunks >>
reflowVars == << chunks, enforceAt, reflowSys, guard, roundsRun, visits, lastMove >>

anchorsBySystem == buildAnchorsBySystem(anchors, systemsTiming)

\* selectedCharIndex === null
Null == -1

NoMove == [kind |-> "none", from |-> 0, to |-> 0, moved |-> << >>]

AllLyrics == SeqsUpTo(Alphabet, MaxLyricsLen)

\* the chord field of a new document
ChordFieldIdle ==
  /\ chordDraft = << >>
  /\ chordParser = "withRests"

\* the grid before it is given props
GridIdle ==
  /\ chords = << >>
  /\ beatsPerBar = 0
  /\ subdivision = 1
  /\ barsPerSystem = 1
  /\ gridVersion = "allBars"
  /\ bars = << >>
  /\ systems = << >>
  /\ gridTiming = << >>

PipelineIdle ==
  /\ lyricTokens = << >>
  /\ ranges = << >>
  /\ ptr = 0
  /\ initialTokenChunks = << >>
  /\ chunks = << >>
  /\ enforceAt = 0
  /\ reflowSys = 0
  /\ guard = 0
  /\ roundsRun = [ s \in 1..NumSystems |-> 0 ]
  /\ visits = [ s \in 1..NumSystems |-> 0 ]
  /\ lastMove = NoMove
  /\ systemLayouts = << >>

InitTokenizer ==
  /\ pc = "tokenize"
  /\ lyrics \in AllLyrics
  /\ anchors = << >>
  /\ systemWidthPx \in Widths
  /\ layoutVariant = "evenSpread"
  /\ selectedCharIndex = Null
  /\ ChordFieldIdle
  /\ nextId = 0
  /\ windowCells = SystemCells
  /\ PipelineIdle
  /\ GridIdle

Tokenize ==
  /\ pc = "tokenize"
  /\ lyricTokens' = tokenizeAllLyrics(lyrics)
  /\ pc' = "chunk"
  /\ UNCHANGED << inputVars, chunkVars, reflowVars, systemLayouts >>

NextTokenizer == Tokenize

SpecTokenizer == InitTokenizer /\ [][NextTokenizer]_vars

(***************************************************************************)
(* The render pipeline of LeadSheetGrid.                                   *)
(***************************************************************************)
TotalCells == NumSystems * SystemCells
PipelineAlphabet == { "a", "-", " " }
PipelineLyrics == SeqsUpTo(PipelineAlphabet, MaxPipelineLyricsLen)

Anchor(charIndex, cell) == [charIndex |-> charIndex, cell |-> cell]

\* anchor lists as the editor keeps them: at most one anchor per charIndex,
\* 0 <= charIndex <= lyrics.length, sorted by cell
AnchorLists(lyr) ==
  { q \in SeqsUpTo({ Anchor(c, cell) : c \in 0..Len(lyr), cell \in 0..(TotalCells - 1) },
                   MaxAnchors) :
      /\ \A i, j \in 1..Len(q) : i # j => q[i].charIndex # q[j].charIndex
      /\ \A i \in 1..(Len(q) - 1) : q[i].cell <= q[i + 1].cell }

Init ==
  /\ pc = "tokenize"
  /\ lyrics \in PipelineLyrics
  /\ anchors \in AnchorLists(lyrics)
  /\ systemWidthPx \in Widths
  /\ layoutVariant \in LayoutVariants
  /\ selectedCharIndex = Null
  /\ ChordFieldIdle
  /\ nextId = 0
  /\ windowCells = SystemCells
  /\ PipelineIdle
  /\ GridIdle

\* one iteration of the per-system loop of chunkTokensForwardOnly; the last
\* iteration returns ranges.map((r) => tokens.slice(r.start, r.end))
ChunkSystem ==
  /\ pc = "chunk"
  /\ Len(ranges) < NumSystems
  /\ LET s == Len(ranges) + 1
         reqMax == requiredMaxBySystem(lyricTokens, anchors, systemsTiming)[s]
         r == RangeForSystem(lyricTokens, ptr, reqMax, systemWidthPx)
         pushed == Append(ranges, r)
     IN  /\ ranges' = pushed
         /\ ptr' = r.end
         /\ IF Len(pushed) = NumSystems
            THEN /\ initialTokenChunks' = [ k \in 1..NumSystems |-> RangeIndices(pushed[k]) ]
                 /\ pc' = "reflowStart"
            ELSE UNCHANGED << initialTokenChunks, pc >>
  /\ UNCHANGED << inputVars, lyricTokens, reflowVars, systemLayouts >>

\* the anchors the ownership pass walks: system by system, each in list order
RECURSIVE EnforceWorkFrom(_)
EnforceWorkFrom(s) ==
  IF s > NumSystems THEN << >>
  ELSE [ k \in 1..Len(anchorsBySystem[s]) |->
           [sys |-> s, charIndex |-> anchorsBySystem[s][k].charIndex] ]
       \o EnforceWorkFrom(s + 1)

EnforceWork == EnforceWorkFrom(1)

\* a search of chunk c that takes a token of any kind with this charIndex
RECURSIVE FirstInChunkAnyKind(_, _, _, _)
FirstInChunkAnyKind(tokens, c, charIndex, k) ==
  IF k > Len(c) THEN 0
  ELSE IF tokens[c[k] + 1].charIndex = charIndex THEN k
  ELSE FirstInChunkAnyKind(tokens, c, charIndex, k + 1)

\* position in chunk c of the first word token with this charIndex, 0 if none
RECURSIVE FirstInChunk(_, _, _, _)
FirstInChunk(tokens, c, charIndex, k) ==
  IF k > Len(c) THEN 0
  ELSE IF tokens[c[k] + 1].kind = "word" /\ tokens[c[k] + 1].charIndex = charIndex THEN k
  ELSE FirstInChunk(tokens, c, charIndex, k + 1)

\* findToken: the first system holding the word, as [sys, idx], sys = 0 for null
RECURSIVE FindToken(_, _, _, _)
FindToken(tokens, cs, charIndex, s) ==
  IF s > Len(cs) THEN [sys |-> 0, idx |-> 0]
  ELSE LET k == FirstInChunk(tokens, cs[s], charIndex, 1)
       IN  IF k # 0 THEN [sys |-> s, idx |-> k]
           ELSE FindToken(tokens, cs, charIndex, s + 1)

\* variant of the ownership step that prepends the moved tail to the first system
EnforceOneIntoFirst(tokens, cs, s, charIndex) ==
  LET loc == FindToken(tokens, cs, charIndex, 1)
  IN  IF loc.sys = 0 \/ loc.sys = s \/ loc.sys > s \/ loc.sys = 1 THEN cs
      ELSE LET moved == SubSeq(cs[loc.sys], loc.idx, Len(cs[loc.sys]))
           IN  [cs EXCEPT ![loc.sys] = SubSeq(cs[loc.sys], 1, loc.idx - 1),
                          ![1] = moved \o cs[1]]

\* variant of the ownership step that leaves a second copy of the first moved
\* token in the target system
EnforceOneDuplicating(tokens, cs, s, charIndex) ==
  LET loc == FindToken(tokens, cs, charIndex, 1)
  IN  IF loc.sys = 0 \/ loc.sys = s \/ loc.sys > s THEN cs
      ELSE LET moved == SubSeq(cs[loc.sys], loc.idx, Len(cs[loc.sys]))
           IN  [cs EXCEPT ![loc.sys] = SubSeq(cs[loc.sys], 1, loc.idx - 1),
                          ![s] = moved \o << moved[1] >> \o cs[s]]

\* the body of the ownership loop for one anchor of system s: the new chunks
EnforceOne(tokens, cs, s, charIndex) ==
  LET loc == FindToken(tokens, cs, charIndex, 1)
  IN  IF loc.sys = 0 \/ loc.sys = s \/ loc.sys > s THEN cs
      ELSE \* splice(curIdx) of a found index is never empty
           LET moved == SubSeq(cs[loc.sys], loc.idx, Len(cs[loc.sys]))
           IN  [cs EXCEPT ![loc.sys] = SubSeq(cs[loc.sys], 1, loc.idx - 1),
                          ![s] = moved \o cs[s]]

MoveBetween(kind, before, after) ==
  IF before = after THEN NoMove
  ELSE LET from == CHOOSE s \in 1..Len(before) : Len(after[s]) < Len(before[s])
           to == CHOOSE s \in 1..Len(before) : Len(after[s]) > Len(before[s])
       IN  [kind |-> kind, from |-> from, to |-> to,
            moved |-> SubSeq(before[from], Len(after[from]) + 1, Len(before[from]))]

\* variant of the ownership step that works on the caller's arrays
EnforceAnchorInPlace ==
  /\ pc = "enforce"
  /\ enforceAt < Len(EnforceWork)
  /\ LET item == EnforceWork[enforceAt + 1]
         next == EnforceOne(lyricTokens, chunks, item.sys, item.charIndex)
     IN  /\ chunks' = next
         /\ initialTokenChunks' = next
         /\ lastMove' = MoveBetween("ownership", chunks, next)
  /\ enforceAt' = enforceAt + 1
  /\ pc' = IF enforceAt + 1 = Len(EnforceWork) THEN "reflow" ELSE "enforce"
  /\ UNCHANGED << inputVars, lyricTokens, ranges, ptr, reflowSys, guard, roundsRun, visits,
                  systemLayouts >>

\* reflowOverflowAcrossSystems starts: editable copies of the chunks
ReflowCopy ==
  /\ pc = "reflowStart"
  /\ chunks' = initialTokenChunks
  /\ enforceAt' = 0
  /\ pc' = IF Len(EnforceWork) = 0 THEN "reflow" ELSE "enforce"
  /\ UNCHANGED << inputVars, lyricTokens, chunkVars, reflowSys, guard, roundsRun, visits,
                  lastMove, systemLayouts >>

\* enforceAnchoredTokenOwnership: one anchor of the walk
EnforceAnchor ==
  /\ pc = "enforce"
  /\ enforceAt < Len(EnforceWork)
  /\ LET item == EnforceWork[enforceAt + 1]
         next == EnforceOne(lyricTokens, chunks, item.sys, item.charIndex)
     IN  /\ chunks' = next
         /\ lastMove' = MoveBetween("ownership", chunks, next)
  /\ enforceAt' = enforceAt + 1
  /\ pc' = IF enforceAt + 1 = Len(EnforceWork) THEN "reflow" ELSE "enforce"
  /\ UNCHANGED << inputVars, lyricTokens, chunkVars, reflowSys, guard, roundsRun, visits,
                  systemLayouts >>

ChunkTokens(tokens, c) == [ k \in 1..Len(c) |-> tokens[c[k] + 1] ]

\* a requiredMaxLocal that finds no anchored token in the chunk
requiredMaxLocalNone(tokens, c, anchorsHere) == 0

\* requiredMaxLocal of system s: last position of chunk c anchored in s, 0 if none
\* (-1 in the source).  The loop computes it once per system; a splice never
\* reaches down to it, so it is the same in every round.
requiredMaxLocal(tokens, c, anchorsHere) ==
  LET hit == { k \in 1..Len(c) :
                 /\ tokens[c[k] + 1].kind = "word"
                 /\ \E m \in 1..Len(anchorsHere) :
                      anchorsHere[m].charIndex = tokens[c[k] + 1].charIndex }
  IN  IF hit = {} THEN 0 ELSE CHOOSE k \in hit : \A k2 \in hit : k2 <= k

\* first position whose right edge x + estWidthOfToken exceeds the width, 0 if none
RECURSIVE OverflowPos(_, _, _, _)
OverflowPos(x, toks, widthPx, k) ==
  IF k > Len(toks) THEN 0
  ELSE IF x[k] + WidthOf(toks, k) > Px(widthPx) THEN k
  ELSE OverflowPos(x, toks, widthPx, k + 1)

LayoutOfSystem(cs, s) ==
  layoutOnlyBetweenAnchors(layoutVariant, ChunkTokens(lyricTokens, cs[s]), anchorsBySystem[s],
                           systemsTiming[s].startCell,
                           systemsTiming[s].endCell - systemsTiming[s].startCell,
                           systemWidthPx)

OverflowOfSystem(cs, s) ==
  OverflowPos(LayoutOfSystem(cs, s), ChunkTokens(lyricTokens, cs[s]), systemWidthPx, 1)

\* reflowSys is 0-based as in the source; system s is chunks[reflowSys + 1].
\* if (!chunks[s].length) continue: tested once, before the guard loop
ReflowSkipEmpty ==
  /\ pc = "reflow"
  /\ reflowSys < NumSystems - 1
  /\ guard = 0
  /\ Len(chunks[reflowSys + 1]) = 0
  /\ reflowSys' = reflowSys + 1
  /\ visits' = [visits EXCEPT ![reflowSys + 1] = @ + 1]
  /\ UNCHANGED << inputVars, lyricTokens, chunkVars, chunks, enforceAt, guard, roundsRun,
                  lastMove, systemLayouts, pc >>

\* a round of the guard loop that ends it: no overflow, or the overflowing
\* token is at or before the last token anchored in this system
ReflowRoundSettled ==
  /\ pc = "reflow"
  /\ reflowSys < NumSystems - 1
  /\ (guard > 0 \/ Len(chunks[reflowSys + 1]) # 0)
  /\ guard < MaxReflowRounds
  /\ LET s == reflowSys + 1
         overflowPos == OverflowOfSystem(chunks, s)
     IN  \/ overflowPos = 0
         \/ overflowPos <= requiredMaxLocal(lyricTokens, chunks[s], anchorsBySystem[s])
  /\ reflowSys' = reflowSys + 1
  /\ guard' = 0
  /\ roundsRun' = [roundsRun EXCEPT ![reflowSys + 1] = @ + 1]
  /\ visits' = [visits EXCEPT ![reflowSys + 1] = IF guard = 0 THEN @ + 1 ELSE @]
  /\ UNCHANGED << inputVars, lyricTokens, chunkVars, chunks, enforceAt, lastMove,
                  systemLayouts, pc >>

\* variant of the splice round that does not count the round
ReflowRoundPushUncounted ==
  /\ pc = "reflow"
  /\ reflowSys < NumSystems - 1
  /\ (guard > 0 \/ Len(chunks[reflowSys + 1]) # 0)
  /\ guard < MaxReflowRounds
  /\ LET s == reflowSys + 1
         overflowPos == OverflowOfSystem(chunks, s)
         moving == SubSeq(chunks[s], overflowPos, Len(chunks[s]))
         next == [chunks EXCEPT ![s] = SubSeq(chunks[s], 1, overflowPos - 1),
                                ![s + 1] = moving \o chunks[s + 1]]
     IN  /\ overflowPos # 0
         /\ overflowPos > requiredMaxLocal(lyricTokens, chunks[s], anchorsBySystem[s])
         /\ chunks' = next
         /\ lastMove' = MoveBetween("overflow", chunks, next)
  /\ roundsRun' = [roundsRun EXCEPT ![reflowSys + 1] = @ + 1]
  /\ visits' = [visits EXCEPT ![reflowSys + 1] = IF guard = 0 THEN @ + 1 ELSE @]
  /\ guard' = guard
  /\ reflowSys' = reflowSys
  /\ UNCHANGED << inputVars, lyricTokens, chunkVars, enforceAt, systemLayouts, pc >>

\* a round that splices the overflowing tail into the front of the next system
ReflowRoundPush ==
  /\ pc = "reflow"
  /\ reflowSys < NumSystems - 1
  /\ (guard > 0 \/ Len(chunks[reflowSys + 1]) # 0)
  /\ guard < MaxReflowRounds
  /\ LET s == reflowSys + 1
         overflowPos == OverflowOfSystem(chunks, s)
         moving == SubSeq(chunks[s], overflowPos, Len(chunks[s]))
         next == [chunks EXCEPT ![s] = SubSeq(chunks[s], 1, overflowPos - 1),
                                ![s + 1] = moving \o chunks[s + 1]]
     IN  /\ overflowPos # 0
         /\ overflowPos > requiredMaxLocal(lyricTokens, chunks[s], anchorsBySystem[s])
         /\ chunks' = next
         /\ lastMove' = MoveBetween("overflow", chunks, next)
  /\ roundsRun' = [roundsRun EXCEPT ![reflowSys + 1] = @ + 1]
  /\ visits' = [visits EXCEPT ![reflowSys + 1] = IF guard = 0 THEN @ + 1 ELSE @]
  /\ IF guard + 1 < MaxReflowRounds
     THEN guard' = guard + 1 /\ reflowSys' = reflowSys
     ELSE guard' = 0 /\ reflowSys' = reflowSys + 1
  /\ UNCHANGED << inputVars, lyricTokens, chunkVars, enforceAt, systemLayouts, pc >>

\* the overflow loop is over: reflowOverflowAcrossSystems returns chunks
ReflowReturn ==
  /\ pc = "reflow"
  /\ reflowSys >= NumSystems - 1
  /\ pc' = "layout"
  /\ UNCHANGED << inputVars, lyricTokens, chunkVars, reflowVars, systemLayouts >>

\* systemLayouts: layoutOnlyBetweenAnchors on every system's final chunk
LayoutSystems ==
  /\ pc = "layout"
  /\ systemLayouts' = [ s \in 1..NumSystems |-> LayoutOfSystem(chunks, s) ]
  /\ pc' = "done"
  /\ UNCHANGED << inputVars, lyricTokens, chunkVars, reflowVars >>

Next ==
  \/ Tokenize
  \/ ChunkSystem
  \/ ReflowCopy
  \/ EnforceAnchor
  \/ ReflowSkipEmpty
  \/ ReflowRoundSettled
  \/ ReflowRoundPush
  \/ ReflowReturn
  \/ LayoutSystems

Spec == Init /\ [][Next]_vars

(***************************************************************************)
(* The chunker's functions as wholes: the result of a call, as a function  *)
(* of its arguments.                                                       *)
(***************************************************************************)
\* the ranges pushed by the per-system loop from system s on
RECURSIVE ChunkRangesFrom(_, _, _, _, _)
ChunkRangesFrom(tokens, reqMax, widthPx, s, cursor) ==
  IF s > Len(reqMax) THEN << >>
  ELSE LET r == RangeForSystem(tokens, cursor, reqMax[s], widthPx)
       IN  << r >> \o ChunkRangesFrom(tokens, reqMax, widthPx, s + 1, r.end)

chunkTokensForwardOnly(tokens, anchorList, timing, widthPx) ==
  LET rs == ChunkRangesFrom(tokens, requiredMaxBySystem(tokens, anchorList, timing),
                            widthPx, 1, 0)
  IN  [ k \in 1..Len(rs) |-> RangeIndices(rs[k]) ]

\* the ownership loop from anchor m of system s on
RECURSIVE EnforceFrom(_, _, _, _, _)
EnforceFrom(tokens, cs, bySystem, s, m) ==
  IF s > Len(bySystem) THEN cs
  ELSE IF m > Len(bySystem[s]) THEN EnforceFrom(tokens, cs, bySystem, s + 1, 1)
  ELSE EnforceFrom(tokens, EnforceOne(tokens, cs, s, bySystem[s][m].charIndex),
                   bySystem, s, m + 1)

enforceAnchoredTokenOwnership(tokens, cs, bySystem) == EnforceFrom(tokens, cs, bySystem, 1, 1)

\* the overflow loop from round g of system s on (s 1-based)
RECURSIVE OverflowLoopFrom(_, _, _, _, _, _, _, _)
OverflowLoopFrom(variant, tokens, cs, bySystem, timing, widthPx, s, g) ==
  IF s > Len(cs) - 1 THEN cs
  ELSE IF (g = 0 /\ Len(cs[s]) = 0) \/ g >= MaxReflowRounds
  THEN OverflowLoopFrom(variant, tokens, cs, bySystem, timing, widthPx, s + 1, 0)
  ELSE LET toks == ChunkTokens(tokens, cs[s])
           x == layoutOnlyBetweenAnchors(variant, toks, bySystem[s], timing[s].startCell,
                                         timing[s].endCell - timing[s].startCell, widthPx)
           overflowPos == OverflowPos(x, toks, widthPx, 1)
       IN  IF overflowPos = 0 \/ overflowPos <= requiredMaxLocal(tokens, cs[s], bySystem[s])
           THEN OverflowLoopFrom(variant, tokens, cs, bySystem, timing, widthPx, s + 1, 0)
           ELSE OverflowLoopFrom(variant, tokens,
                  [cs EXCEPT ![s] = SubSeq(cs[s], 1, overflowPos - 1),
                             ![s + 1] = SubSeq(cs[s], overflowPos, Len(cs[s])) \o cs[s + 1]],
                  bySystem, timing, widthPx, s, g + 1)

reflowOverflowAcrossSystems(variant, tokens, initialChunks, bySystem, timing, widthPx) ==
  OverflowLoopFrom(variant, tokens,
                   enforceAnchoredTokenOwnership(tokens, initialChunks, bySystem),
                   bySystem, timing, widthPx, 1, 0)

\* systemLayouts of LeadSheetGrid for given chunks
SystemLayoutsOf(variant, tokens, cs, bySystem, timing, widthPx) ==
  [ s \in 1..Len(cs) |->
      layoutOnlyBetweenAnchors(variant, ChunkTokens(tokens, cs[s]), bySystem[s],
                               timing[s].startCell,
                               timing[s].endCell - timing[s].startCell, widthPx) ]

(***************************************************************************)
(* layoutOnlyBetweenAnchors on its own: one system holding every token of  *)
(* the lyrics, anchors timed inside, at the edges of and outside its       *)
(* window.  The layout is left in systemLayouts[1].                        *)
(***************************************************************************)
LayoutAnchorLists(lyr) ==
  { q \in SeqsUpTo({ Anchor(c, cell) : c \in 0..Len(lyr),
                                      cell \in (LayoutStartCell - 1)..
                                               (LayoutStartCell + LayoutCells + 1) },
                   MaxAnchors) :
      /\ \A i, j \in 1..Len(q) : i # j => q[i].charIndex # q[j].charIndex
      /\ \A i \in 1..(Len(q) - 1) : q[i].cell <= q[i + 1].cell }

InitLayout ==
  /\ pc = "tokenize"
  /\ lyrics \in PipelineLyrics
  /\ anchors \in LayoutAnchorLists(lyrics)
  /\ systemWidthPx \in LayoutWidths
  /\ layoutVariant \in LayoutVariants
  /\ selectedCharIndex = Null
  /\ ChordFieldIdle
  /\ nextId = 0
  /\ windowCells = LayoutCells
  /\ PipelineIdle
  /\ GridIdle

LayoutDirect ==
  /\ pc = "chunk"
  /\ systemLayouts' = << layoutOnlyBetweenAnchors(layoutVariant, lyricTokens, anchors,
                                                  LayoutStartCell, windowCells,
                                                  systemWidthPx) >>
  /\ pc' = "laidOut"
  /\ UNCHANGED << inputVars, lyricTokens, chunkVars, reflowVars >>

NextLayout == Tokenize \/ LayoutDirect

SpecLayout == InitLayout /\ [][NextLayout]_vars

(***************************************************************************)
(* layoutOnlyBetweenAnchors on degenerate geometry: a window of no cells   *)
(* (systemBeats = 0), a system of no width, or both.  In part_003 and      *)
(* part_004 an anchor that matches a word of a window of no cells gets     *)
(* x = (0 / 0) * systemWidthPx, which is NaN; positions here are numbers,  *)
(* so those calls are not among the ones made.                             *)
(***************************************************************************)
DividesZeroByZero(variant, lyr, anchorList, cells) ==
  /\ variant # "evenSpread"
  /\ cells = 0
  /\ \E m \in 1..Len(anchorList) :
       FirstWordPos(tokenizeAllLyrics(lyr), anchorList[m].charIndex, 1) # 0

InitDegenerate ==
  /\ pc = "tokenize"
  /\ lyrics \in PipelineLyrics
  /\ anchors \in LayoutAnchorLists(lyrics)
  /\ systemWidthPx \in LayoutWidths \cup { 0 }
  /\ windowCells \in { 0, LayoutCells }
  /\ (systemWidthPx = 0 \/ windowCells = 0)
  /\ layoutVariant \in LayoutVariants
  /\ ~DividesZeroByZero(layoutVariant, lyrics, anchors, windowCells)
  /\ selectedCharIndex = Null
  /\ ChordFieldIdle
  /\ nextId = 0
  /\ PipelineIdle
  /\ GridIdle

SpecDegenerate == InitDegenerate /\ [][NextLayout]_vars

(***************************************************************************)
(* layoutOnlyBetweenAnchorsInCells on its own: one system of one bar       *)
(* holding every token of the lyrics.  The cells are left in               *)
(* systemLayouts[1].                                                       *)
(***************************************************************************)
LayoutInCells ==
  /\ pc = "chunk"
  /\ systemLayouts' = << layoutOnlyBetweenAnchorsInCells(
                           lyricTokens, anchors, LayoutStartCell, windowCells,
                           pxPerCellOf(systemWidthPx, windowCells)) >>
  /\ pc' = "laidOutInCells"
  /\ UNCHANGED << inputVars, lyricTokens, chunkVars, reflowVars >>

NextCells == Tokenize \/ LayoutInCells

SpecCells == InitLayout /\ [][NextCells]_vars

(***************************************************************************)
(* The render pipeline on a line of many short words: one system receives  *)
(* more tokens than the guard loop has rounds.  The actions are those of   *)
(* Spec; only the inputs differ.                                           *)
(***************************************************************************)
\* "a a ... a" with n words
RECURSIVE WordsLine(_)
WordsLine(n) == IF n <= 1 THEN << "a" >> ELSE WordsLine(n - 1) \o << " ", "a" >>

LongLines == { WordsLine(n) : n \in 1..MaxLineWords }
LongLineWidths == { 120, 480 }

InitLongLine ==
  /\ pc = "tokenize"
  /\ lyrics \in LongLines
  /\ anchors \in { q \in AnchorLists(lyrics) :
                     Len(q) <= 1 /\ \A i \in 1..Len(q) : q[i].charIndex \in { 0, 2 } }
  /\ systemWidthPx \in LongLineWidths
  /\ layoutVariant \in LayoutVariants
  /\ selectedCharIndex = Null
  /\ ChordFieldIdle
  /\ nextId = 0
  /\ windowCells = SystemCells
  /\ PipelineIdle
  /\ GridIdle

SpecLongLine == InitLongLine /\ [][Next]_vars

(***************************************************************************)
(* The editor page: the lyrics and the anchors of the section, edited by   *)
(* setLyrics, addAnchor, undoLastAnchor and the beat click in anchor mode. *)
(* An anchor is a record [id, charIndex, cell]; crypto.randomUUID() is the *)
(* next unused id.                                                         *)
(***************************************************************************)
EditorAlphabet == { "a", " " }
EditorLyrics == SeqsUpTo(EditorAlphabet, MaxEditorLen)

LyricAnchor(id, charIndex, cell) == [id |-> id, charIndex |-> charIndex, cell |-> cell]

\* setLyrics without the clamp
ClampAnchorsNone(anchorList, nextLen) == anchorList
\* section.anchors.map(charIndex -> min(charIndex, next.length)).filter(charIndex >= 0)
ClampAnchors(anchorList, nextLen) ==
  SelectSeq([ k \in 1..Len(anchorList) |->
                [anchorList[k] EXCEPT !.charIndex = Min(anchorList[k].charIndex, nextLen)] ],
            LAMBDA a : a.charIndex >= 0)

\* Array.prototype.sort((a, b) => a.cell - b.cell): stable
RECURSIVE InsertByCell(_, _)
InsertByCell(sorted, a) ==
  IF sorted = << >> THEN << a >>
  ELSE IF sorted[Len(sorted)].cell <= a.cell THEN Append(sorted, a)
  ELSE Append(InsertByCell(SubSeq(sorted, 1, Len(sorted) - 1), a), sorted[Len(sorted)])

RECURSIVE SortByCell(_, _, _)
SortByCell(list, k, acc) ==
  IF k > Len(list) THEN acc ELSE SortByCell(list, k + 1, InsertByCell(acc, list[k]))

\* the anchor list addAnchor(charIndex, cell) stores
AnchorsAfterAdd(anchorList, lyr, charIndex, cell, id) ==
  LET clamped == Max(0, Min(charIndex, Len(lyr)))
      filtered == SelectSeq(anchorList, LAMBDA a : a.charIndex # clamped)
  IN  SortByCell(Append(filtered, LyricAnchor(id, clamped, cell)), 1, << >>)

InitEditor ==
  /\ pc = "editor"
  /\ lyrics = << >>
  /\ anchors = << >>
  /\ systemWidthPx \in Widths
  /\ layoutVariant = "evenSpread"
  /\ selectedCharIndex = Null
  /\ ChordFieldIdle
  /\ nextId = 0
  /\ windowCells = SystemCells
  /\ PipelineIdle
  /\ GridIdle

editorUnchanged == << pc, systemWidthPx, layoutVariant, lyricTokens, chunkVars, reflowVars,
                      systemLayouts, windowCells, gridVars, chordFieldVars >>

SetLyrics ==
  /\ pc = "editor"
  /\ \E next \in EditorLyrics :
       /\ lyrics' = next
       /\ anchors' = ClampAnchors(anchors, Len(next))
       /\ selectedCharIndex' =
            IF selectedCharIndex # Null /\ selectedCharIndex > Len(next)
            THEN Null ELSE selectedCharIndex
  /\ UNCHANGED << nextId, editorUnchanged >>

\* addAnchor called with any arguments
AddAnchor ==
  /\ pc = "editor"
  /\ nextId < MaxAnchorIds
  /\ \E charIndex \in (-1)..(MaxEditorLen + 1), cell \in 0..(EditorCells - 1) :
       anchors' = AnchorsAfterAdd(anchors, lyrics, charIndex, cell, nextId + 1)
  /\ nextId' = nextId + 1
  /\ UNCHANGED << lyrics, selectedCharIndex, editorUnchanged >>

UndoLastAnchor ==
  /\ pc = "editor"
  /\ Len(anchors) > 0
  /\ anchors' = SubSeq(anchors, 1, Len(anchors) - 1)
  /\ UNCHANGED << lyrics, selectedCharIndex, nextId, editorUnchanged >>

\* a click on a rendered token: onSelectCharIndex(token.charIndex)
SelectCharIndex ==
  /\ pc = "editor"
  /\ \E k \in 1..Len(tokenizeAllLyrics(lyrics)) :
       selectedCharIndex' = tokenizeAllLyrics(lyrics)[k].charIndex
  /\ UNCHANGED << lyrics, anchors, nextId, editorUnchanged >>

\* onBeatClick with no chord armed: anchor mode
OnBeatClick ==
  /\ pc = "editor"
  /\ selectedCharIndex # Null
  /\ nextId < MaxAnchorIds
  /\ \E cell \in 0..(EditorCells - 1) :
       anchors' = AnchorsAfterAdd(anchors, lyrics, selectedCharIndex, cell, nextId + 1)
  /\ nextId' = nextId + 1
  /\ selectedCharIndex' = Null
  /\ UNCHANGED << lyrics, editorUnchanged >>

NextEditor ==
  \/ SetLyrics
  \/ AddAnchor
  \/ UndoLastAnchor
  \/ SelectCharIndex
  \/ OnBeatClick

SpecEditor == InitEditor /\ [][NextEditor]_vars

(***************************************************************************)
(* The editor page: the chords of the section and the chord text field.    *)
(* A chord is a record [cell, symbol] (display key = original key, so a    *)
(* symbol is stored as it is shown).  The text "X:2 C:2" is the sequence   *)
(* of its parts << [symbol |-> "X", beats |-> 2], [symbol |-> "C",         *)
(* beats |-> 2] >>.  Two versions of parseChordInput are in the            *)
(* repository: "withRests" (src/src/lib/geometry/cellToX.ts) reads X:n as  *)
(* a rest, "chordsOnly" (src/src/lib/chordInput.ts) reads it as a chord.   *)
(* The user clicks beats and presses Enter in the field, and never types.  *)
(***************************************************************************)
ChordParsers == { "withRests", "chordsOnly" }
ChordSymbols == { "C", "G" }
\* the cells the user clicks: the first bar of the largest grid
ChordCells == 0..(MaxBeatsPerBar * MaxSubdivision - 1)

ChordEvent(cell, symbol) == [cell |-> cell, symbol |-> symbol]
BeatPart(symbol, beats) == [symbol |-> symbol, beats |-> beats]

\* Math.round(a / b) for a >= 0, b > 0
RoundDiv(a, b) == (2 * a + b) \div (2 * b)

\* "Group chords that share the same cell; keep last one"
RECURSIVE UniqByCell(_, _, _)
UniqByCell(sorted, k, acc) ==
  IF k > Len(sorted) THEN acc
  ELSE IF Len(acc) > 0 /\ acc[Len(acc)].cell = sorted[k].cell
  THEN UniqByCell(sorted, k + 1, [acc EXCEPT ![Len(acc)] = sorted[k]])
  ELSE UniqByCell(sorted, k + 1, Append(acc, sorted[k]))

chordsToBeatString(chs, sub, perBar) ==
  IF Len(chs) = 0 THEN << >>
  ELSE LET safeSub == Max(1, sub)
           barCells == Max(1, perBar) * safeSub
           uniq == UniqByCell(SortByCell(chs, 1, << >>), 1, << >>)
           firstCell == uniq[1].cell
           lead == IF firstCell > 0
                   THEN << BeatPart("X", Max(1, RoundDiv(firstCell, safeSub))) >>
                   ELSE << >>
           cellDelta(i) ==
             IF i < Len(uniq) THEN Max(0, uniq[i + 1].cell - uniq[i].cell)
             ELSE Max(0, barCells - (((uniq[i].cell % barCells) + barCells) % barCells))
       IN  lead \o [ i \in 1..Len(uniq) |->
                       BeatPart(uniq[i].symbol, Max(1, RoundDiv(cellDelta(i), safeSub))) ]

\* the loop of parseChordInput from part k on
RECURSIVE ParseFrom(_, _, _, _, _, _)
ParseFrom(parser, parts, k, cellCursor, events, sub) ==
  IF k > Len(parts) THEN events
  ELSE IF parts[k].symbol = "" \/ parts[k].beats <= 0
  THEN ParseFrom(parser, parts, k + 1, cellCursor, events, sub)
  ELSE LET isRest == parser = "withRests" /\ parts[k].symbol \in { "X", "x" }
       IN  ParseFrom(parser, parts, k + 1, cellCursor + parts[k].beats * sub,
                     IF isRest THEN events
                     ELSE Append(events, ChordEvent(cellCursor, parts[k].symbol)),
                     sub)

parseChordInput(parser, input, sub) == ParseFrom(parser, input, 1, 0, << >>, sub)

\* the effect on chordStringFromDoc: setChordDraft((prev) => !prev ? doc : prev)
SyncChordDraft(prev, chordStringFromDoc) ==
  IF prev = << >> THEN chordStringFromDoc ELSE prev

InitChords ==
  /\ pc = "chords"
  /\ lyrics = << >>
  /\ anchors = << >>
  /\ systemWidthPx \in Widths
  /\ layoutVariant = "evenSpread"
  /\ selectedCharIndex = Null
  /\ nextId = 0
  /\ windowCells = SystemCells
  /\ PipelineIdle
  /\ chords = << >>
  /\ beatsPerBar \in 1..MaxBeatsPerBar
  /\ subdivision \in 1..MaxSubdivision
  /\ barsPerSystem = 1
  /\ gridVersion = "allBars"
  /\ bars = << >>
  /\ systems = << >>
  /\ gridTiming = << >>
  /\ chordDraft = << >>
  /\ chordParser \in ChordParsers

chordsUnchanged == << pc, lyrics, anchors, systemWidthPx, layoutVariant, selectedCharIndex,
                      nextId, windowCells, lyricTokens, chunkVars, reflowVars, systemLayouts,
                      beatsPerBar, subdivision, barsPerSystem, gridVersion, bars, systems,
                      gridTiming, chordParser >>

\* onBeatClick with a chord armed: placeChordAtCell, then the sync effect
PlaceChordAtCell ==
  /\ pc = "chords"
  /\ \E symbol \in ChordSymbols, cell \in ChordCells :
       LET filtered == SelectSeq(chords, LAMBDA c : c.cell # cell)
           nextChords == SortByCell(Append(filtered, ChordEvent(cell, symbol)), 1, << >>)
       IN  /\ chords' = nextChords
           /\ chordDraft' = SyncChordDraft(chordDraft,
                              chordsToBeatString(nextChords, subdivision, beatsPerBar))
  /\ UNCHANGED chordsUnchanged

\* onBeatClick with the delete tool: removeChordAtCell, then the sync effect
RemoveChordAtCell ==
  /\ pc = "chords"
  /\ \E cell \in ChordCells :
       LET nextChords == SelectSeq(chords, LAMBDA c : c.cell # cell)
       IN  /\ Len(nextChords) # Len(chords)
           /\ chords' = nextChords
           /\ chordDraft' = SyncChordDraft(chordDraft,
                              chordsToBeatString(nextChords, subdivision, beatsPerBar))
  /\ UNCHANGED chordsUnchanged

\* Enter in the chord field: applyChordDraft, then the sync effect
ApplyChordDraft ==
  /\ pc = "chords"
  /\ LET parsed == parseChordInput(chordParser, chordDraft, subdivision)
     IN  /\ chords' = parsed
         /\ chordDraft' = SyncChordDraft(chordsToBeatString(parsed, subdivision, beatsPerBar),
                                         chordsToBeatString(parsed, subdivision, beatsPerBar))
  /\ UNCHANGED chordsUnchanged

NextChords ==
  \/ PlaceChordAtCell
  \/ RemoveChordAtCell
  \/ ApplyChordDraft

SpecChords == InitChords /\ [][NextChords]_vars

(***************************************************************************)
(* LeadSheetGrid: bars, systems and systemsTiming built from the chords.   *)
(* Two versions are in the repository: "allBars" (src/unnamed/part_015)    *)
(* makes a bar model for every bar up to the last chord, "skipEmptyBars"   *)
(* (src/src/components/LeadSheetGrid.tsx) leaves out the bars that hold no *)
(* chord.  A chord is its cell; a segment keeps its length in cells        *)
(* (beats = durCells / subdivision).                                       *)
(***************************************************************************)
GridVersions == { "allBars", "skipEmptyBars" }

ChordLists == SeqsUpTo({ [cell |-> c] : c \in (-1)..MaxChordCell }, MaxChords)

\* [...chords].filter(cell >= 0).sort((a, b) => a.cell - b.cell)
SortedChords(chs) == SortByCell(SelectSeq(chs, LAMBDA c : c.cell >= 0), 1, << >>)

\* sorted[sorted.length - 1].cell of an empty array
BarsThrow(version, chs, barCells) ==
  /\ version = "skipEmptyBars"
  /\ Len(chs) > 0
  /\ barCells > 0
  /\ Len(SortedChords(chs)) = 0

BarModel(sorted, barIndex, barCells) ==
  LET barStart == barIndex * barCells
      barEnd == barStart + barCells
      inBar == SelectSeq(sorted, LAMBDA c : c.cell >= barStart /\ c.cell < barEnd)
  IN  [barIndex |-> barIndex,
       segments |->
         [ i \in 1..Len(inBar) |->
             LET nextStart == IF i + 1 <= Len(inBar) THEN inBar[i + 1].cell ELSE barEnd
             IN  [startCellInBar |-> inBar[i].cell - barStart,
                  durCells |-> Max(0, Min(nextStart, barEnd) - inBar[i].cell)] ]]

\* the bars useMemo, for the inputs on which it does not throw
BarsOf(version, chs, barCells) ==
  IF barCells <= 0 \/ (version = "skipEmptyBars" /\ Len(chs) = 0) THEN << >>
  ELSE LET sorted == SortedChords(chs)
           lastCell == IF Len(sorted) > 0 THEN sorted[Len(sorted)].cell ELSE 0
           totalBars == Max(1, (lastCell \div barCells) + 1)
           all == [ b \in 1..totalBars |-> BarModel(sorted, b - 1, barCells) ]
       IN  IF version = "skipEmptyBars"
           THEN SelectSeq(all, LAMBDA bar : Len(bar.segments) # 0)
           ELSE all

\* the systems useMemo: bars.slice(i, i + barsPerSystem) for i = 0, barsPerSystem, ...
SystemsOf(barList, perSystem) ==
  [ k \in 1..((Len(barList) + perSystem - 1) \div perSystem) |->
      SubSeq(barList, (k - 1) * perSystem + 1, Min(k * perSystem, Len(barList))) ]

\* the systemsTiming useMemo
systemsTimingOf(systemList, barCells) ==
  [ k \in 1..Len(systemList) |->
      LET firstBarIndex == IF Len(systemList[k]) > 0 THEN systemList[k][1].barIndex ELSE 0
          startCell == firstBarIndex * barCells
      IN  [startCell |-> startCell, endCell |-> startCell + Len(systemList[k]) * barCells] ]

InitGrid ==
  /\ pc = "bars"
  /\ lyrics = << >>
  /\ anchors = << >>
  /\ systemWidthPx \in Widths
  /\ layoutVariant = "evenSpread"
  /\ selectedCharIndex = Null
  /\ ChordFieldIdle
  /\ nextId = 0
  /\ windowCells = SystemCells
  /\ PipelineIdle
  /\ chords \in ChordLists
  /\ beatsPerBar \in 0..MaxBeatsPerBar
  /\ subdivision \in 1..MaxSubdivision
  /\ barsPerSystem \in 1..MaxBarsPerSystem
  /\ gridVersion \in GridVersions
  /\ bars = << >>
  /\ systems = << >>
  /\ gridTiming = << >>

gridUnchanged == << lyrics, anchors, systemWidthPx, layoutVariant, selectedCharIndex, nextId,
                    windowCells, lyricTokens, chunkVars, reflowVars, systemLayouts,
                    chords, beatsPerBar, subdivision, barsPerSystem, gridVersion,
                    chordFieldVars >>

BuildBars ==
  /\ pc = "bars"
  /\ ~BarsThrow(gridVersion, chords, beatsPerBar * subdivision)
  /\ bars' = BarsOf(gridVersion, chords, beatsPerBar * subdivision)
  /\ pc' = "systems"
  /\ UNCHANGED << gridUnchanged, systems, gridTiming >>

\* the render throws a TypeError: no memo is computed
BuildBarsThrows ==
  /\ pc = "bars"
  /\ BarsThrow(gridVersion, chords, beatsPerBar * subdivision)
  /\ pc' = "threw"
  /\ UNCHANGED << gridUnchanged, bars, systems, gridTiming >>

BuildSystems ==
  /\ pc = "systems"
  /\ systems' = SystemsOf(bars, barsPerSystem)
  /\ pc' = "timing"
  /\ UNCHANGED << gridUnchanged, bars, gridTiming >>

BuildTiming ==
  /\ pc = "timing"
  /\ gridTiming' = systemsTimingOf(systems, beatsPerBar * subdivision)
  /\ pc' = "timed"
  /\ UNCHANGED << gridUnchanged, bars, systems >>

NextGrid ==
  \/ BuildBars
  \/ BuildBarsThrows
  \/ BuildSystems
  \/ BuildTiming

SpecGrid == InitGrid /\ [][NextGrid]_vars

(***************************************************************************)
(* Tokenizer properties, checked under SpecTokenizer.                      *)
(***************************************************************************)
WordTokenIdx == { k \in 1..Len(lyricTokens) : lyricTokens[k].kind = "word" }
HyphenTokenIdx == { k \in 1..Len(lyricTokens) : lyricTokens[k].kind = "hyphen" }

\* C9: every Word token's text is the slice of the lyrics at its charIndex,
\* every Hyphen token sits on a '-' of the lyrics, and charIndex is strictly
\* increasing along the token sequence.
TokenizerIndicesAbsolute ==
  pc # "tokenize" =>
    /\ \A k \in WordTokenIdx :
         LET t == lyricTokens[k] IN
         /\ t.charIndex >= 0
         /\ t.charIndex + Len(t.text) <= Len(lyrics)
         /\ \A j \in 1..Len(t.text) : lyrics[t.charIndex + j] = t.text[j]
    /\ \A k \in HyphenTokenIdx :
         LET t == lyricTokens[k] IN
         /\ t.charIndex >= 0
         /\ t.charIndex < Len(lyrics)
         /\ lyrics[t.charIndex + 1] = "-"
    /\ \A k \in 1..(Len(lyricTokens) - 1) :
         lyricTokens[k].charIndex < lyricTokens[k + 1].charIndex

\* a hyphenated word that does not start the lyrics has been tokenized
TokenizerIndicesWitness ==
  /\ pc # "tokenize"
  /\ \E k \in WordTokenIdx : lyricTokens[k].charIndex > 0 /\ Len(lyricTokens[k].text) >= 2
  /\ \E k \in HyphenTokenIdx : k > 1 /\ k < Len(lyricTokens)

IsSegmentChar(c) == ~IsWs(c) /\ c # "-"

\* maximal runs [from, to) of characters that are neither whitespace nor '-'
MaximalSegments ==
  { r \in (0..Len(lyrics)) \X (0..Len(lyrics)) :
      /\ r[1] < r[2]
      /\ \A j \in (r[1] + 1)..r[2] : IsSegmentChar(lyrics[j])
      /\ (r[1] = 0 \/ ~IsSegmentChar(lyrics[r[1]]))
      /\ (r[2] = Len(lyrics) \/ ~IsSegmentChar(lyrics[r[2] + 1])) }

\* C10: each '-' of the lyrics yields exactly one Hyphen token at its index,
\* the Word tokens are exactly the non-empty segments between dashes and
\* whitespace, and no Word token is empty or contains '-'.
TokenizerHyphenSplitting ==
  pc # "tokenize" =>
    /\ { lyricTokens[k].charIndex : k \in HyphenTokenIdx }
         = { i \in 0..(Len(lyrics) - 1) : lyrics[i + 1] = "-" }
    /\ Cardinality(HyphenTokenIdx)
         = Cardinality({ i \in 0..(Len(lyrics) - 1) : lyrics[i + 1] = "-" })
    /\ { << lyricTokens[k].charIndex, lyricTokens[k].charIndex + Len(lyricTokens[k].text) >> :
           k \in WordTokenIdx } = MaximalSegments
    /\ Cardinality(WordTokenIdx) = Cardinality(MaximalSegments)
    /\ \A k \in WordTokenIdx :
         /\ Len(lyricTokens[k].text) > 0
         /\ \A j \in 1..Len(lyricTokens[k].text) : lyricTokens[k].text[j] # "-"

\* leading, adjacent and trailing dashes around a word have been tokenized
TokenizerHyphenSplittingWitness ==
  /\ pc # "tokenize"
  /\ Len(lyrics) >= 4
  /\ lyrics[1] = "-"
  /\ \E i \in 1..(Len(lyrics) - 1) : lyrics[i] = "-" /\ lyrics[i + 1] = "-"
  /\ lyrics[Len(lyrics)] = "-"
  /\ WordTokenIdx # {}

\* the lyrics with every newline replaced by a space
SpacesForNewlines(lyr) == [ j \in 1..Len(lyr) |-> IF lyr[j] = "\n" THEN " " ELSE lyr[j] ]

\* maximal runs [from, to) of non-whitespace characters
MaximalWordRuns ==
  { r \in (0..Len(lyrics)) \X (0..Len(lyrics)) :
      /\ r[1] < r[2]
      /\ \A j \in (r[1] + 1)..r[2] : ~IsWs(lyrics[j])
      /\ (r[1] = 0 \/ IsWs(lyrics[r[1]]))
      /\ (r[2] = Len(lyrics) \/ IsWs(lyrics[r[2] + 1])) }

\* C11: empty or whitespace-only lyrics give no token; no token text holds a
\* whitespace character; replacing every newline by a space gives the same
\* tokens; a dash-free string gives one token per maximal non-whitespace run.
TokenizerWhitespace ==
  pc # "tokenize" =>
    /\ (\A j \in 1..Len(lyrics) : IsWs(lyrics[j])) => lyricTokens = << >>
    /\ \A k \in WordTokenIdx :
         \A j \in 1..Len(lyricTokens[k].text) : lyricTokens[k].text[j] \notin Whitespace
    /\ tokenizeAllLyrics(SpacesForNewlines(lyrics)) = lyricTokens
    /\ (\A j \in 1..Len(lyrics) : lyrics[j] # "-") =>
         Len(lyricTokens) = Cardinality(MaximalWordRuns)

\* two words separated by a run of whitespace that holds a newline
TokenizerWhitespaceWitness ==
  /\ pc # "tokenize"
  /\ Len(lyricTokens) = 2
  /\ \A j \in 1..Len(lyrics) : lyrics[j] # "-"
  /\ \E j \in 1..(Len(lyrics) - 1) :
       /\ IsWs(lyrics[j]) /\ IsWs(lyrics[j + 1])
       /\ "\n" \in { lyrics[j], lyrics[j + 1] }

(***************************************************************************)
(* Chunker properties, checked under Spec.                                 *)
(***************************************************************************)
ReflowReturned == pc \in { "layout", "done" }

TokenIds == 0..(Len(lyricTokens) - 1)

\* number of places a token occupies in the chunks
Occurrences(cs, id) ==
  Cardinality({ p \in (1..Len(cs)) \X (1..MaxLyricsLen) :
                  p[2] <= Len(cs[p[1]]) /\ cs[p[1]][p[2]] = id })

RECURSIVE Concat(_, _)
Concat(cs, s) == IF s > Len(cs) THEN << >> ELSE cs[s] \o Concat(cs, s + 1)

\* the system (1-based) holding a token, 0 when no chunk holds it
SystemOf(cs, id) ==
  IF \E s \in 1..Len(cs) : \E j \in 1..Len(cs[s]) : cs[s][j] = id
  THEN CHOOSE s \in 1..Len(cs) : \E j \in 1..Len(cs[s]) : cs[s][j] = id
  ELSE 0

\* C1: when reflowOverflowAcrossSystems has returned, every token of the
\* tokenization is in exactly one of the final chunks.
PartitionCoverage ==
  ReflowReturned => \A id \in TokenIds : Occurrences(chunks, id) = 1

\* C2: the final chunks, concatenated in system order, list the tokens in
\* strictly increasing original index.
OrderPreserved ==
  ReflowReturned =>
    LET all == Concat(chunks, 1)
    IN  \A j \in 1..(Len(all) - 1) : all[j] < all[j + 1]

\* C3: a word token present in the chunks whose charIndex is anchored to a
\* cell of system s's window is in system s's final chunk.
OwnershipLaw ==
  ReflowReturned =>
    \A s \in 1..NumSystems : \A m \in 1..Len(anchorsBySystem[s]) :
      \A id \in TokenIds :
        ( /\ lyricTokens[id + 1].kind = "word"
          /\ lyricTokens[id + 1].charIndex = anchorsBySystem[s][m].charIndex
          /\ SystemOf(chunks, id) # 0 )
        => SystemOf(chunks, id) = s

\* C6: no token is ever in an earlier system than the one chunkTokensForwardOnly
\* gave it; an ownership move goes from a system to a later one, an overflow
\* move from a system to the next one.
ForwardOnlyMovement ==
  /\ pc \in { "enforce", "reflow", "layout", "done" } =>
       \A id \in TokenIds :
         SystemOf(initialTokenChunks, id) # 0 =>
           SystemOf(chunks, id) >= SystemOf(initialTokenChunks, id)
  /\ lastMove.kind = "ownership" => lastMove.from < lastMove.to
  /\ lastMove.kind = "overflow" => lastMove.to = lastMove.from + 1

\* an ownership move, then an overflow move of a token, and reflow has returned
ForwardOnlyMovementWitness ==
  /\ ReflowReturned
  /\ lastMove.kind = "overflow"
  /\ \E id \in TokenIds :
       /\ SystemOf(initialTokenChunks, id) # 0
       /\ SystemOf(chunks, id) >= SystemOf(initialTokenChunks, id) + 2

\* steps the pipeline can still take, at most
Rank ==
  LET reflowMax == (NumSystems - 1) * (MaxReflowRounds + 1)
      enforceMax == MaxAnchors
  IN  CASE pc = "done" -> 0
        [] pc = "layout" -> 1
        [] pc = "reflow" ->
             2 + (NumSystems - 1 - reflowSys) * (MaxReflowRounds + 1) - guard
        [] pc = "enforce" -> 3 + reflowMax + (Len(EnforceWork) - enforceAt)
        [] pc = "reflowStart" -> 4 + reflowMax + enforceMax
        [] pc = "chunk" -> 5 + reflowMax + enforceMax + (NumSystems - Len(ranges))
        [] pc = "tokenize" -> 6 + reflowMax + enforceMax + NumSystems

LaidOut == pc = "laidOut"

\* positions (1-based) of the word tokens that an anchor of the list matches
AnchoredPositions ==
  { k \in 1..Len(lyricTokens) :
      /\ lyricTokens[k].kind = "word"
      /\ \E m \in 1..Len(anchors) : anchors[m].charIndex = lyricTokens[k].charIndex }

AnchorOf(k) ==
  anchors[CHOOSE m \in 1..Len(anchors) : anchors[m].charIndex = lyricTokens[k].charIndex]

\* C4: in the output of the two versions that clamp the cell map (forward
\* pass, backward ripple), every anchored word token is at exactly the
\* clamped linear map of its anchor's cell.
AnchorFixedness ==
  (LaidOut /\ layoutVariant \in { "forwardPass", "backwardRipple" }) =>
    \A k \in AnchoredPositions :
      systemLayouts[1][k]
        = AnchorXClamped(AnchorOf(k).cell, LayoutStartCell, LayoutCells, systemWidthPx)

\* a pair (k, k+1) that cannot be separated by moving unanchored tokens to the
\* right: one of its tokens is anchored, or an anchored token follows it
PairHeldByAnchor(k) ==
  k \in AnchoredPositions \/ \E a \in AnchoredPositions : a >= k + 1

\* C5: consecutive tokens do not overlap, x[i] + width(i) + gap <= x[i+1],
\* except for the pairs that separating would require moving an anchored token.
NonOverlap ==
  LaidOut =>
    \A k \in 1..(Len(lyricTokens) - 1) :
      ~PairHeldByAnchor(k) =>
        systemLayouts[1][k] + WidthOf(lyricTokens, k) + GapU <= systemLayouts[1][k + 1]

(***************************************************************************)
(* Editor properties, checked under SpecEditor.                            *)
(***************************************************************************)
\* C12: no two stored anchors have the same charIndex.
UniqueAnchorPerChar ==
  pc = "editor" =>
    \A i, j \in 1..Len(anchors) : i # j => anchors[i].charIndex # anchors[j].charIndex

\* C13: every stored anchor has 0 <= charIndex <= lyrics.length; a step that
\* changes the lyrics keeps every anchor, with its id and cell, and sets its
\* charIndex to min(charIndex, new length).
AnchorBounds ==
  /\ [](pc = "editor" =>
          \A i \in 1..Len(anchors) :
            anchors[i].charIndex >= 0 /\ anchors[i].charIndex <= Len(lyrics))
  /\ [][lyrics' # lyrics =>
          /\ Len(anchors') = Len(anchors)
          /\ \A i \in 1..Len(anchors) :
               /\ anchors'[i].id = anchors[i].id
               /\ anchors'[i].cell = anchors[i].cell
               /\ anchors'[i].charIndex = Min(anchors[i].charIndex, Len(lyrics'))]_vars

\* setLyrics has clamped two anchors onto the end of shortened lyrics
AnchorBoundsWitness ==
  /\ pc = "editor"
  /\ Len(lyrics) < MaxEditorLen
  /\ \E i, j \in 1..Len(anchors) :
       /\ i # j
       /\ anchors[i].charIndex = Len(lyrics)
       /\ anchors[j].charIndex = Len(lyrics)

(***************************************************************************)
(* Stale anchors, checked under Spec.                                      *)
(***************************************************************************)
IsLiveAnchor(a) ==
  \E k \in 1..Len(lyricTokens) :
    lyricTokens[k].kind = "word" /\ lyricTokens[k].charIndex = a.charIndex

\* the anchor list with the anchors that match no word token removed
LiveAnchors == SelectSeq(anchors, IsLiveAnchor)

\* C14: the chunks of chunkTokensForwardOnly, the chunks of
\* reflowOverflowAcrossSystems and the laid-out positions are those computed
\* from the anchor list without the anchors that match no word token.
StaleAnchorsIgnored ==
  pc = "done" =>
    LET liveBySystem == buildAnchorsBySystem(LiveAnchors, systemsTiming)
        liveInitial == chunkTokensForwardOnly(lyricTokens, LiveAnchors, systemsTiming,
                                              systemWidthPx)
        liveChunks == reflowOverflowAcrossSystems(layoutVariant, lyricTokens, liveInitial,
                                                  liveBySystem, systemsTiming, systemWidthPx)
    IN  /\ initialTokenChunks = liveInitial
        /\ chunks = liveChunks
        /\ systemLayouts = SystemLayoutsOf(layoutVariant, lyricTokens, liveChunks,
                                           liveBySystem, systemsTiming, systemWidthPx)

\* the pipeline ran with an anchor on a hyphen and an anchor on a word, timed in
\* a system after the one that first held their tokens, and tokens were moved
StaleAnchorsIgnoredWitness ==
  /\ pc = "done"
  /\ chunks # initialTokenChunks
  /\ \E m \in 1..Len(anchors) : IsLiveAnchor(anchors[m])
  /\ \E m \in 1..Len(anchors) : \E k \in 1..Len(lyricTokens) :
       /\ lyricTokens[k].kind = "hyphen"
       /\ lyricTokens[k].charIndex = anchors[m].charIndex
       /\ anchors[m].cell >= SystemCells
       /\ SystemOf(initialTokenChunks, k - 1) = 1

(***************************************************************************)
(* The cell map of the position solver, checked under SpecLayout.          *)
(***************************************************************************)
AnchorXOf(k) ==
  anchorCellToX(layoutVariant, AnchorOf(k).cell, LayoutStartCell, LayoutCells, systemWidthPx)

\* C15: the position computed for an anchor is inside the system: 0 for a
\* cell at or before the window start, the full width for a cell at or after
\* the window end, linear in between, and monotone in the cell.
ClampedCellMap ==
  LaidOut =>
    \A k \in AnchoredPositions :
      LET cell == AnchorOf(k).cell IN
      /\ AnchorXOf(k) >= 0
      /\ AnchorXOf(k) <= Px(systemWidthPx)
      /\ cell <= LayoutStartCell => AnchorXOf(k) = 0
      /\ cell >= LayoutStartCell + LayoutCells => AnchorXOf(k) = Px(systemWidthPx)
      /\ (cell >= LayoutStartCell /\ cell <= LayoutStartCell + LayoutCells) =>
           AnchorXOf(k) * LayoutCells = (cell - LayoutStartCell) * Px(systemWidthPx)
      /\ \A k2 \in AnchoredPositions :
           AnchorOf(k2).cell <= cell => AnchorXOf(k2) <= AnchorXOf(k)

(***************************************************************************)
(* Degenerate geometry, checked under SpecDegenerate.                      *)
(***************************************************************************)
\* C16: with a window of no cells or a system of no width, every token of
\* the system is laid out at position 0.
DegenerateGeometryAtZero ==
  LaidOut => \A k \in 1..Len(lyricTokens) : systemLayouts[1][k] = 0

(***************************************************************************)
(* System windows, checked under SpecGrid.                                 *)
(***************************************************************************)
\* C17: the systemsTiming list starts at cell 0, each window ends where the
\* next one starts, every window has startCell < endCell, and every bar of a
\* system lies inside the system's window.
ContiguousWindows ==
  pc = "timed" =>
    LET barCells == beatsPerBar * subdivision IN
    /\ Len(gridTiming) > 0 => gridTiming[1].startCell = 0
    /\ \A k \in 1..(Len(gridTiming) - 1) : gridTiming[k].endCell = gridTiming[k + 1].startCell
    /\ \A k \in 1..Len(gridTiming) : gridTiming[k].startCell < gridTiming[k].endCell
    /\ \A k \in 1..Len(systems) : \A b \in 1..Len(systems[k]) :
         /\ gridTiming[k].startCell <= systems[k][b].barIndex * barCells
         /\ (systems[k][b].barIndex + 1) * barCells <= gridTiming[k].endCell

(***************************************************************************)
(* Unanchored systems and hyphens, checked under SpecLayout.               *)
(***************************************************************************)
\* C18: in the even-spread version and the forward-pass version, a system of
\* n >= 2 tokens none of which an anchor matches has token i (0-based) at
\* (i / (n - 1)) * systemWidthPx.
NoAnchorEvenSpread ==
  ( /\ LaidOut
    /\ layoutVariant \in { "evenSpread", "forwardPass" }
    /\ AnchoredPositions = {}
    /\ Len(lyricTokens) >= 2 ) =>
    \A k \in 1..Len(lyricTokens) :
      systemLayouts[1][k] * (Len(lyricTokens) - 1) = (k - 1) * Px(systemWidthPx)

\* the positions of the forward-pass version before its hyphen centering pass
BeforeCentering ==
  LET lin == LinearFlow(lyricTokens, 1, 0, << >>)
      pts == AnchorPoints(lyricTokens, anchors, LayoutStartCell, LayoutCells, systemWidthPx)
  IN  IF Len(pts) >= 1 THEN ForwardPass(SnapAndSpread(lin, pts), lyricTokens, 2)
      ELSE IF Len(lyricTokens) = 0 THEN << >>
      ELSE ShiftToFit(lin, lyricTokens, systemWidthPx)

ReflowStoppingCondition ==
  ReflowReturned =>
    \A s \in 1..(NumSystems - 1) :
      \/ OverflowOfSystem(chunks, s) = 0
      \/ /\ requiredMaxLocal(lyricTokens, chunks[s], anchorsBySystem[s]) # 0
         /\ requiredMaxLocal(lyricTokens, chunks[s], anchorsBySystem[s]) = Len(chunks[s])

(***************************************************************************)
(* Anchored tokens in the overflow loop, checked under Spec.               *)
(***************************************************************************)
\* a word token whose charIndex is anchored to a cell of system s's window
AnchoredInSystem(id, s) ==
  /\ lyricTokens[id + 1].kind = "word"
  /\ \E m \in 1..Len(anchorsBySystem[s]) :
       anchorsBySystem[s][m].charIndex = lyricTokens[id + 1].charIndex

\* the chunks as enforceAnchoredTokenOwnership left them
ChunksAfterOwnership ==
  enforceAnchoredTokenOwnership(lyricTokens, initialTokenChunks, anchorsBySystem)

\* C21: a word token that is in system s's chunk after ownership correction
\* and is anchored to a cell of s's window is in system s's chunk when
\* reflowOverflowAcrossSystems returns; the tokens an overflow round moves out
\* of a system hold no token anchored in that system (they come after the last
\* one).
OverflowKeepsAnchored ==
  /\ ReflowReturned =>
       \A s \in 1..NumSystems : \A k \in 1..Len(ChunksAfterOwnership[s]) :
         AnchoredInSystem(ChunksAfterOwnership[s][k], s) =>
           \E j \in 1..Len(chunks[s]) : chunks[s][j] = ChunksAfterOwnership[s][k]
  /\ lastMove.kind = "overflow" =>
       /\ \A k \in 1..Len(lastMove.moved) : ~AnchoredInSystem(lastMove.moved[k], lastMove.from)
       /\ \A j \in 1..Len(chunks[lastMove.from]) : \A k \in 1..Len(lastMove.moved) :
            chunks[lastMove.from][j] < lastMove.moved[k]

\* the overflow loop moved the tokens after an anchored token of a system on
\* to the next system, the anchored token overflowing or not, and has returned
OverflowKeepsAnchoredWitness ==
  /\ ReflowReturned
  /\ lastMove.kind = "overflow"
  /\ \E j \in 1..Len(chunks[lastMove.from]) :
       AnchoredInSystem(chunks[lastMove.from][j], lastMove.from)

(***************************************************************************)
(* The collision pass of the backward-ripple solver, checked under         *)
(* SpecLayout.                                                             *)
(***************************************************************************)
\* the anchor points of the one system laid out
LayoutAnchorPoints ==
  AnchorPoints(lyricTokens, anchors, LayoutStartCell, windowCells, systemWidthPx)

\* positions (1-based) of the tokens in anchoredIndex
AnchoredIndex == { LayoutAnchorPoints[m].i : m \in 1..Len(LayoutAnchorPoints) }

\* xPos when the collision pass starts: snapped and spread between anchors
BeforeCollisionPass ==
  SnapAndSpread(LinearFlow(lyricTokens, 1, 0, << >>), LayoutAnchorPoints)

\* xPos when the collision pass is over
AfterCollisionPass == CollisionPass(BeforeCollisionPass, lyricTokens, AnchoredIndex, 2)

\* C22: in the backward-ripple version the collision pass leaves every
\* anchored token where it was when the pass began.
CollisionPassKeepsAnchors ==
  (LaidOut /\ layoutVariant = "backwardRipple" /\ AnchoredIndex # {}) =>
    \A k \in AnchoredIndex : AfterCollisionPass[k] = BeforeCollisionPass[k]

(***************************************************************************)
(* packRun of the cell-space solver, checked under SpecCells.              *)
(***************************************************************************)
LaidOutInCells == pc = "laidOutInCells"

CellPxPerCell == pxPerCellOf(systemWidthPx, windowCells)

\* the runs packRun is called on: the run of every unanchored token
PackedRuns ==
  LET pts == CellAnchorPoints(lyricTokens, anchors, LayoutStartCell, windowCells)
  IN  { RunOf(lyricTokens, pts, windowCells, CellPxPerCell, k) :
          k \in { k \in 1..Len(lyricTokens) : \A m \in 1..Len(pts) : pts[m].i # k } }

\* a run is placed as the packing rule says
PackedByRule(r) ==
  LET pos == packRun(lyricTokens, r.startIdx, r.endIdx, r.leftBound, r.rightBound,
                     CellPxPerCell)
      sumW == SumWidthCells(lyricTokens, r.startIdx, r.endIdx, CellPxPerCell)
      g == IF r.endIdx > r.startIdx
           THEN pos[r.startIdx + 1] - pos[r.startIdx]
                  - widthCells(lyricTokens[r.startIdx], CellPxPerCell)
           ELSE 0
  IN  IF sumW > r.rightBound - r.leftBound
      THEN \A i \in r.startIdx..r.endIdx : pos[i] = r.leftBound
      ELSE /\ 0 <= g
           /\ g <= baseGapCells(CellPxPerCell)
           /\ \A i \in r.startIdx..r.endIdx :
                pos[i] = r.leftBound
                           + SumWidthCells(lyricTokens, r.startIdx, i - 1, CellPxPerCell)
                           + (i - r.startIdx) * g
           /\ pos[r.endIdx] + widthCells(lyricTokens[r.endIdx], CellPxPerCell) <= r.rightBound

\* C23: a run of unanchored tokens wider than the span between its fences has
\* all its tokens at the left fence; a run that fits is packed from the left
\* fence with one gap g, 0 <= g <= base gap, its right edge not past the right
\* fence.
CellSpacePacking == LaidOutInCells => \A r \in PackedRuns : PackedByRule(r)

\* runs that fit at the base gap, fit only at a smaller gap, and do not fit
CellSpacePackingCases ==
  /\ LaidOutInCells
  /\ \E r \in PackedRuns :
       /\ r.endIdx > r.startIdx
       /\ LET sumW == SumWidthCells(lyricTokens, r.startIdx, r.endIdx, CellPxPerCell)
              slack == r.rightBound - r.leftBound - sumW
          IN  slack >= 0 /\ slack < (r.endIdx - r.startIdx) * baseGapCells(CellPxPerCell)

(***************************************************************************)
(* The forward width fill of chunkTokensForwardOnly, checked under Spec.   *)
(***************************************************************************)
\* estimated width of tokens[from .. to - 1] (0-based, to exclusive) laid side
\* by side: the token widths and one gap between consecutive tokens
RECURSIVE RunWidth(_, _, _)
RunWidth(tokens, from, to) ==
  IF to <= from THEN 0
  ELSE RunWidth(tokens, from, to - 1) + estWidthOfToken(tokens[to])
         + (IF to - 1 > from THEN gapPx ELSE 0)

\* exclusive end of the longest run from ptr that is no wider than the system
LongestFittingEnd(tokens, from, widthPx) ==
  LET fits == { e \in from..Len(tokens) : RunWidth(tokens, from, e) <= widthPx }
  IN  CHOOSE e \in fits : \A e2 \in fits : e2 <= e

\* the end the width fill is to give a system whose range starts at ptr
WidthFillRule(tokens, from, widthPx) ==
  Min(Max(from + 1, LongestFittingEnd(tokens, from, widthPx)), from + MaxTokensPerSystem)

\* C24: every system's range starts where the previous one ended; while
\* tokens remain, the width fill from there ends after the longest run no wider
\* than systemWidthPx, after one token when not even one fits, and after
\* 260 tokens at most; a system with no anchored token at or past its start
\* gets exactly that range.
ForwardWidthFill ==
  \A s \in 1..Len(ranges) :
       LET from == ranges[s].start
           filled == WidthFill(lyricTokens, from, from, 0, systemWidthPx)
           reqMax == requiredMaxBySystem(lyricTokens, anchors, systemsTiming)[s]
       IN  /\ from = (IF s = 1 THEN 0 ELSE ranges[s - 1].end)
           /\ from < Len(lyricTokens) =>
                /\ filled = WidthFillRule(lyricTokens, from, systemWidthPx)
                /\ filled > from
                /\ filled - from <= MaxTokensPerSystem
                /\ reqMax < from => ranges[s].end = filled
           /\ from >= Len(lyricTokens) => ranges[s].end = from

\* chunkTokensForwardOnly has returned; one system was filled with two tokens
\* or more and the next token did not fit, and one was given a single token
ForwardWidthFillWitness ==
  /\ pc = "reflowStart"
  /\ \E s \in 1..NumSystems :
       /\ ranges[s].end - ranges[s].start >= 2
       /\ ranges[s].end < Len(lyricTokens)
       /\ ranges[s].end = WidthFill(lyricTokens, ranges[s].start, ranges[s].start, 0,
                                    systemWidthPx)
  /\ \E s \in 1..NumSystems : ranges[s].end - ranges[s].start = 1

(***************************************************************************)
(* The anchor-driven extension of chunkTokensForwardOnly, checked under    *)
(* Spec.                                                                   *)
(***************************************************************************)
\* largest index of a word token anchored to a cell of system s's window,
\* -1 when there is none
LargestAnchoredIndex(s) ==
  LET hit == { id \in TokenIds : AnchoredInSystem(id, s) }
  IN  IF hit = {} THEN -1 ELSE CHOOSE id \in hit : \A id2 \in hit : id2 <= id

ChunkerReturned == pc \notin { "tokenize", "chunk" }

\* C25: the end of system s's range is max(width-fill end, 1 + the largest
\* index of a word token anchored in s's window) when that index is at or past
\* the system's start, and the width-fill end otherwise; it is never before the
\* width-fill end, and when chunkTokensForwardOnly has returned every anchored
\* word token is in the system its anchor is timed in or in an earlier one.
AnchorDrivenExtension ==
  /\ \A s \in 1..Len(ranges) :
       LET from == ranges[s].start
           filled == WidthFill(lyricTokens, from, from, 0, systemWidthPx)
           largest == LargestAnchoredIndex(s)
       IN  from < Len(lyricTokens) =>
             /\ largest >= from => ranges[s].end = Max(filled, largest + 1)
             /\ largest < from => ranges[s].end = filled
             /\ ranges[s].end >= filled
  /\ ChunkerReturned =>
       \A s \in 1..NumSystems : \A id \in TokenIds :
         AnchoredInSystem(id, s) =>
           /\ SystemOf(initialTokenChunks, id) >= 1
           /\ SystemOf(initialTokenChunks, id) <= s

\* chunkTokensForwardOnly has returned; an anchor extended its system's range
\* past the width fill, and another anchored word is in a system before the one
\* its anchor is timed in
AnchorDrivenExtensionWitness ==
  /\ pc = "reflowStart"
  /\ \E s \in 1..NumSystems :
       /\ LargestAnchoredIndex(s) >= ranges[s].start
       /\ ranges[s].end > WidthFill(lyricTokens, ranges[s].start, ranges[s].start, 0,
                                    systemWidthPx)
  /\ \E s \in 1..NumSystems : \E id \in TokenIds :
       /\ AnchoredInSystem(id, s)
       /\ SystemOf(initialTokenChunks, id) < s

(***************************************************************************)
(* The chord field, checked under SpecChords.                              *)
(***************************************************************************)
ChordCellsOf(chs) == { chs[k].cell : k \in 1..Len(chs) }

\* C26: the chord field, which the user is not editing, always shows
\* chordsToBeatString of the document's chords, and Enter in the field leaves
\* the set of chord cells as it is.
ChordFieldInSync ==
  /\ [](pc = "chords" => chordDraft = chordsToBeatString(chords, subdivision, beatsPerBar))
  /\ [][ApplyChordDraft => ChordCellsOf(chords') = ChordCellsOf(chords)]_vars

(***************************************************************************)
(* Undo, checked under SpecEditor.                                         *)
(***************************************************************************)
AnchorIds(anchorList) == { anchorList[k].id : k \in 1..Len(anchorList) }

\* C27: when the anchor made by the latest addAnchor call (its id is nextId)
\* is in the list, undoLastAnchor removes that anchor and no other, and leaves
\* the others as they are and in their order.
UndoRemovesLatestAnchor ==
  [][(UndoLastAnchor /\ nextId \in AnchorIds(anchors)) =>
       /\ AnchorIds(anchors') = AnchorIds(anchors) \ { nextId }
       /\ anchors' = SelectSeq(anchors, LAMBDA a : a.id # nextId)]_vars

(***************************************************************************)
(* What reflowOverflowAcrossSystems does to its arguments and its result,  *)
(* checked under Spec.                                                     *)
(***************************************************************************)
ReflowEntered == pc \in { "enforce", "reflow", "layout", "done" }

\* C28: from the copy on, through ownership correction and every overflow
\* round up to the return, there are as many chunks as in initialChunks and
\* every token is in the chunks as many times as it is in initialChunks.
ReflowConservesContent ==
  ReflowEntered =>
    /\ Len(chunks) = Len(initialTokenChunks)
    /\ \A id \in TokenIds : Occurrences(chunks, id) = Occurrences(initialTokenChunks, id)

\* reflow has returned after ownership correction and then the overflow loop
\* relocated tokens, and some token of the line was in no initial chunk
ReflowConservesContentWitness ==
  /\ ReflowReturned
  /\ ChunksAfterOwnership # initialTokenChunks
  /\ chunks # ChunksAfterOwnership
  /\ \E id \in TokenIds : Occurrences(initialTokenChunks, id) = 0

ReflowFixedPoint ==
  ReflowReturned =>
    reflowOverflowAcrossSystems(layoutVariant, lyricTokens, chunks, anchorsBySystem,
                                systemsTiming, systemWidthPx) = chunks

=============================================================================
